---- MODULE Spec2Model ----
(***************************************************************************)
(* Model of the in-memory queue of weaver-core (queue/memory.rs), its task *)
(* and job records, the dependency graph, the default decider and the      *)
(* worker loop.                                                            *)
(*                                                                         *)
(* Every critical section of the store (the code between taking and        *)
(* releasing the tokio Mutex) is one action.  An operation that takes the  *)
(* lock several times (complete, add_child_tasks, lease) is a sequence of  *)
(* actions linked by the caller's program counter.                         *)
(***************************************************************************)
EXTENDS Integers, Sequences, FiniteSets, TLC

\* ---------------------------------------------------------------- bounds
MaxTasks == 2
MaxJobs == 1
MaxJobTasks == 1
NumWorkers == 2
MaxTime == 1
MaxDelay == 1
MaxLeases == 2
MaxChildren == 1
MaxBudget == 1
MaxFail == 5
MaxSplit == 2
MaxJobSpecTasks == 2
MaxFamily == 4
MaxJobLeases == 3
MaxDepLeases == 4
MaxNodes == 4
MaxEdges == 4
NumPoppers == 2
MaxPushes == 2
MaxTimeout == 1
MaxDecideAttempts == 6
MaxGroupFail == 1
MaxGroupBudget == 2
MaxRetryTasks == 2
MaxRetryLeases == 3
MaxLiveTasks == 2
MaxLiveFail == 1
MaxTaskStates == 3
MaxEnvelopeId == 2

\* ------------------------------------------------------ program constants
EnqueueMaxAttempts == 5
FixtureMaxAttempts == 5
BaseDelay == 1
Multiplier == 1
DeadlineMs == 1
ProposedChildren == 2
CallerTaskId == 999

NoTask == 0
NoJob == 0
NoTime == -1

Workers == 1..NumWorkers
OutcomeKind == {"Success", "Failure", "Blocked"}
Budgets == 0..MaxBudget
Deadlines == {NoTime, DeadlineMs}

VARIABLES
    jobs,             \* JobId -> JobRecord
    records,          \* TaskId -> TaskRecord
    ready,            \* VecDeque<TaskId>
    attempts,         \* AttemptId -> AttemptRecord
    decisions,        \* Vec<DecisionRecord>
    scheduled,        \* content of the BinaryHeap<ScheduledTask>
    edges,            \* DependencyGraph.edges
    reverse_edges,    \* DependencyGraph.reverse_edges
    next_job_id,
    next_task_id,
    next_attempt_id,
    permit,           \* the stored permit of the tokio Notify
    waiters,          \* workers registered on the Notify, oldest first
    now,              \* Instant::now()
    pc,               \* position of each worker / caller
    lease,            \* the task of the lease each caller holds, or NoTask
    local,            \* locals of the call in progress
    clientpc,         \* position of the thread that submits work
    remaining_failures, \* FailingHandler.remaining_failures
    fail_first,       \* the n of FailingHandler::new(n)
    graph_call,       \* the last call on the DependencyGraph and its result
    decompose_on_first, \* DecomposingHandler.decompose_on_first
    shutdown,         \* the value of the watch channel of the WorkerGroup
    joinpc,           \* position of the caller of shutdown_and_join
    queues,           \* InMemoryDeliveryQueue.queues: namespace -> VecDeque
    pop_call,         \* the pop() call of each thread of the delivery queue
    job_call          \* the last update_state_from_tasks call on a JobRecord

store == <<jobs, records, ready, attempts, decisions, scheduled, edges,
           reverse_edges, next_job_id, next_task_id, next_attempt_id>>
notif == <<permit, waiters>>
handler == <<remaining_failures, fail_first>>
delivery == <<queues, pop_call>>
group == <<shutdown, joinpc>>
others == <<decompose_on_first, group, delivery, job_call>>
vars == <<store, notif, now, pc, lease, local, clientpc, handler, graph_call,
          others>>

\* ------------------------------------------------------------- helpers
Perms(S) == {f \in [1..Cardinality(S) -> S] :
                \A i, j \in 1..Cardinality(S) : i # j => f[i] # f[j]}

Put(f, k, v) == [x \in DOMAIN f \cup {k} |-> IF x = k THEN v ELSE f[x]]

RECURSIVE Pow(_, _)
Pow(b, e) == IF e = 0 THEN 1 ELSE b * Pow(b, e - 1)

RECURSIVE SumAttempts(_, _)
SumAttempts(recs, S) ==
    IF S = {} THEN 0
    ELSE LET t == CHOOSE x \in S : TRUE
         IN recs[t].attempts + SumAttempts(recs, S \ {t})

LeasesIssued == SumAttempts(records, DOMAIN records)

\* the threads that call pop() on the delivery queue
Poppers == 1..NumPoppers

\* no pop() call in progress
NoPop == [at |-> "idle", ns |-> "none", start |-> 0, timeout |-> 0,
          returned |-> "no", task |-> NoTask]

\* no call of update_state_from_tasks has been made
NoJobCall == [job |-> NoJob, task_states |-> <<>>]

\* no call on the dependency graph has been made
NoCall == [op |-> "none", task |-> NoTask, depends_on |-> NoTask, result |-> <<>>]

NoLocal == [outcome |-> "none", decision |-> "none", next_run_at |-> NoTime,
            delay |-> 0, nchild |-> 0, child_ids |-> <<>>, attempt_id |-> 0,
            wake |-> NoTime, child_tasks |-> 0]

\* ------------------------------------------------------ record.rs
\* envelope is the task id the TaskEnvelope of the record carries
TaskRecordNew(envelope, max_attempts) ==
    [envelope |-> envelope, state |-> "Queued", job_id |-> NoJob, attempts |-> 0,
     max_attempts |-> max_attempts, next_run_at |-> NoTime,
     depends_on |-> {}, parent_task_id |-> NoTask, child_task_ids |-> <<>>]

new_with_job(envelope, max_attempts, job_id) ==
    [TaskRecordNew(envelope, max_attempts) EXCEPT !.job_id = job_id]

new_child(envelope, max_attempts, job_id, parent) ==
    [TaskRecordNew(envelope, max_attempts) EXCEPT !.job_id = job_id,
                                        !.parent_task_id = parent]

start_attempt_noinc(r) == [r EXCEPT !.state = "Running"]

start_attempt(r) == [r EXCEPT !.state = "Running", !.attempts = r.attempts + 1]

mark_succeeded(r) == [r EXCEPT !.state = "Succeeded"]

mark_dead(r) == [r EXCEPT !.state = "Dead"]

schedule_retry(r, next_run_at) ==
    [r EXCEPT !.state = "RetryScheduled", !.next_run_at = next_run_at]

requeue(r) == [r EXCEPT !.state = "Queued", !.next_run_at = NoTime]

record_remove_dependency(r, dep) == [r EXCEPT !.depends_on = r.depends_on \ {dep}]

record_has_dependencies(r) == r.depends_on # {}

is_terminal(s) == s \in {"Succeeded", "Decomposed", "Dead"}

\* ------------------------------------------------------ attempt.rs
AttemptRecordNew(attempt_id, task_id, kind) ==
    [attempt_id |-> attempt_id, task_id |-> task_id, outcome |-> kind]

DecisionRecordNew(task_id, trigger, policy, decision) ==
    [task_id |-> task_id, trigger |-> trigger, policy |-> policy,
     decision |-> decision]

\* ------------------------------------------------------ job.rs
JobRecordNew(max_attempts_per_task, deadline_ms) ==
    [state |-> "Running", task_ids |-> <<>>,
     max_attempts_per_task |-> max_attempts_per_task,
     deadline_at |-> IF deadline_ms = NoTime THEN NoTime ELSE now + deadline_ms]

is_deadline_exceeded_late(job) ==
    IF job.deadline_at # NoTime THEN now > job.deadline_at ELSE FALSE

is_deadline_exceeded(job) ==
    IF job.deadline_at # NoTime THEN now >= job.deadline_at ELSE FALSE

mark_stuck(job) == [job EXCEPT !.state = "Stuck"]

mark_cancelled(job) == [job EXCEPT !.state = "Cancelled"]

\* update_state_from_tasks: the job state computed from the set of the
\* states of its tasks (task_states is empty when the set is empty)
update_state_from_tasks(states) ==
    IF states = {} THEN "Running"
    ELSE IF states = {"Succeeded"} THEN "Completed"
    ELSE IF states \cap {"Running", "Queued", "RetryScheduled"} # {} THEN "Running"
    ELSE IF (\A st \in states : is_terminal(st)) /\ "Dead" \in states THEN "Failed"
    ELSE "Running"

\* ------------------------------------------------------ dependency.rs
MapAdd(m, k, v) ==
    [x \in DOMAIN m \cup {k} |->
        IF x = k THEN (IF k \in DOMAIN m THEN m[k] ELSE {}) \cup {v} ELSE m[x]]

MapRemove_keep(m, k, v) ==
    IF k \notin DOMAIN m THEN m ELSE [m EXCEPT ![k] = m[k] \ {v}]

MapRemove(m, k, v) ==
    IF k \notin DOMAIN m THEN m
    ELSE IF m[k] \ {v} = {} THEN [x \in DOMAIN m \ {k} |-> m[x]]
    ELSE [m EXCEPT ![k] = m[k] \ {v}]

get_waiting_tasks(rev, t) == IF t \in DOMAIN rev THEN rev[t] ELSE {}

get_dependencies(edg, t) == IF t \in DOMAIN edg THEN edg[t] ELSE {}

\* the graph as a record of its two maps
add_dependency(g, task, depends_on) ==
    [edges |-> MapAdd(g.edges, task, depends_on),
     reverse_edges |-> MapAdd(g.reverse_edges, depends_on, task)]

remove_dependency(g, task, depends_on) ==
    [edges |-> MapRemove(g.edges, task, depends_on),
     reverse_edges |-> MapRemove(g.reverse_edges, depends_on, task)]

\* The elements of the set S in the iteration order given by the sequence ord
InOrder(S, ord) == SelectSeq(ord, LAMBDA x : x \in S)

Reverse(sq) == [i \in 1..Len(sq) |-> sq[Len(sq) + 1 - i]]

\* follow_cycle: from join_point back along prev, until join_point is met
\* again or a node has no prev entry; the result is reversed.
RECURSIVE follow_loop(_, _, _, _)
follow_loop(cycle, current, join_point, prev) ==
    IF current \in DOMAIN prev
    THEN LET p == prev[current]
         IN IF p = join_point THEN Append(cycle, p)
            ELSE follow_loop(Append(cycle, p), p, join_point, prev)
    ELSE cycle

follow_cycle(join_point, prev) ==
    Reverse(follow_loop(<<join_point>>, join_point, join_point, prev))

\* the for loop of detect_cycle_from over the dependencies of `node`
RECURSIVE visit_dependencies(_, _, _, _, _)
visit_dependencies(deps, node, stack, visited, prev) ==
    IF deps = <<>>
    THEN [found |-> FALSE, cycle |-> <<>>, stack |-> stack,
          visited |-> visited, prev |-> prev]
    ELSE LET dep == Head(deps)
             prev2 == Put(prev, dep, node)
         IN IF dep \in visited
            THEN [found |-> TRUE, cycle |-> follow_cycle(dep, prev2),
                  stack |-> stack, visited |-> visited, prev |-> prev2]
            ELSE visit_dependencies(Tail(deps), node, Append(stack, dep),
                                    visited \cup {dep}, prev2)

\* the while loop of detect_cycle_from; <<>> stands for None
RECURSIVE detect_loop(_, _, _, _, _)
detect_loop(edg, ord, stack, visited, prev) ==
    IF stack = <<>> THEN <<>>
    ELSE LET node == stack[Len(stack)]
             r == visit_dependencies(InOrder(get_dependencies(edg, node), ord),
                                     node, SubSeq(stack, 1, Len(stack) - 1),
                                     visited, prev)
         IN IF r.found THEN r.cycle
            ELSE detect_loop(edg, ord, r.stack, r.visited, r.prev)

detect_cycle_from(edg, ord, start) ==
    detect_loop(edg, ord, <<start>>, {start}, <<>>)

\* detect_cycle: the start points are the keys of reverse_edges with a
\* non-empty set, visited in the iteration order `starts` of the HashMap;
\* `ord` is the iteration order of the HashSets of dependencies.
RECURSIVE detect_cycle_starts(_, _, _)
detect_cycle_starts(edg, ord, starts) ==
    IF starts = <<>> THEN <<>>
    ELSE LET c == detect_cycle_from(edg, ord, Head(starts))
         IN IF c # <<>> THEN c ELSE detect_cycle_starts(edg, ord, Tail(starts))

start_points(rev) == {k \in DOMAIN rev : rev[k] # {}}

detect_cycle(edg, rev, starts, ord) ==
    detect_cycle_starts(edg, ord, InOrder(start_points(rev), starts))

\* ------------------------------------------------------ retry.rs, decision.rs
next_delay(a) == BaseDelay * Pow(Multiplier, IF a >= 1 THEN a - 1 ELSE 0)

decide_offbyone(task) ==
    IF task.attempts > task.max_attempts
    THEN [kind |-> "MarkDead", delay |-> 0, nchild |-> 0]
    ELSE [kind |-> "Retry", delay |-> next_delay(task.attempts), nchild |-> 0]

decide_exact(task) ==
    IF task.attempts = task.max_attempts
    THEN [kind |-> "MarkDead", delay |-> 0, nchild |-> 0]
    ELSE [kind |-> "Retry", delay |-> next_delay(task.attempts), nchild |-> 0]

decide(task) ==
    IF task.attempts >= task.max_attempts
    THEN [kind |-> "MarkDead", delay |-> 0, nchild |-> 0]
    ELSE [kind |-> "Retry", delay |-> next_delay(task.attempts), nchild |-> 0]

\* ------------------------------------------------------ tokio Notify
\* notify_one(): wake the oldest registered waiter, or store one permit.
NotifiedPc(p) ==
    IF waiters # <<>> THEN [p EXCEPT ![Head(waiters)] = "lease"] ELSE p

NotifyOne ==
    /\ waiters' = IF waiters # <<>> THEN Tail(waiters) ELSE waiters
    /\ permit' = IF waiters # <<>> THEN permit ELSE TRUE

\* ------------------------------------------------------ memory.rs: state
allocate_attempt_id_stuck(n) == n

allocate_attempt_id(n) == n + 1

allocate_task_id(n) == n + 1

IsDue_early(e) == e.next_run_at <= now + 1

IsDue(e) == e.next_run_at <= now

NotDue(e) == ~IsDue(e)

DueIdx == {i \in DOMAIN scheduled : IsDue(scheduled[i])}

\* The orders in which the heap can hand out the due entries: earliest
\* first, entries of equal time in any order.
PopOrders ==
    {[i \in 1..Cardinality(DueIdx) |-> scheduled[p[i]]] : p \in
        {q \in Perms(DueIdx) :
            \A i, j \in 1..Cardinality(DueIdx) :
                i < j => scheduled[q[i]].next_run_at <= scheduled[q[j]].next_run_at}}

PromoteGuard(recs, e) ==
    e.task_id \in DOMAIN recs /\ recs[e.task_id].state = "RetryScheduled"

RECURSIVE promote_scheduled_tasks_front(_, _, _)
promote_scheduled_tasks_front(recs, rdy, es) ==
    IF es = <<>> THEN [records |-> recs, ready |-> rdy]
    ELSE LET e == Head(es)
         IN IF PromoteGuard(recs, e)
            THEN promote_scheduled_tasks_front(
                     [recs EXCEPT ![e.task_id] = requeue(@)],
                     <<e.task_id>> \o rdy, Tail(es))
            ELSE promote_scheduled_tasks_front(recs, rdy, Tail(es))

RECURSIVE promote_scheduled_tasks(_, _, _)
promote_scheduled_tasks(recs, rdy, es) ==
    IF es = <<>> THEN [records |-> recs, ready |-> rdy]
    ELSE LET e == Head(es)
         IN IF PromoteGuard(recs, e)
            THEN promote_scheduled_tasks(
                     [recs EXCEPT ![e.task_id] = requeue(@)],
                     Append(rdy, e.task_id), Tail(es))
            ELSE promote_scheduled_tasks(recs, rdy, Tail(es))

HeapPush_drop(h, next_run_at, task_id) == h

HeapPush(h, next_run_at, task_id) ==
    Append(h, [next_run_at |-> next_run_at, task_id |-> task_id])

HeapPeekTime(h) ==
    IF h = <<>> THEN NoTime
    ELSE CHOOSE t \in {h[i].next_run_at : i \in DOMAIN h} :
            \A i \in DOMAIN h : t <= h[i].next_run_at

RECURSIVE create_tasks_dup(_, _, _, _, _, _)
create_tasks_dup(recs, rdy, job, job_id, first, n) ==
    IF n = 0 THEN [records |-> recs, ready |-> rdy, job |-> job]
    ELSE create_tasks_dup(Put(recs, first,
                              new_with_job(first, job.max_attempts_per_task, job_id)),
                          Append(Append(rdy, first), first),
                          [job EXCEPT !.task_ids = Append(@, first)],
                          job_id, allocate_task_id(first), n - 1)

\* create_job_with_tasks: the job record, then one record and one ready
\* entry per task spec.
RECURSIVE create_tasks(_, _, _, _, _, _)
create_tasks(recs, rdy, job, job_id, first, n) ==
    IF n = 0 THEN [records |-> recs, ready |-> rdy, job |-> job]
    ELSE create_tasks(Put(recs, first,
                          new_with_job(first, job.max_attempts_per_task, job_id)),
                      Append(rdy, first),
                      [job EXCEPT !.task_ids = Append(@, first)],
                      job_id, allocate_task_id(first), n - 1)

\* ------------------------------------------------------ the submitting thread
\* enqueue(envelope): the caller builds the envelope, with a task id of its
\* choice, before the queue allocates the id of the record
EnqueueEnvelope(envelope) ==
    /\ clientpc = "idle"
    /\ next_task_id' = allocate_task_id(next_task_id)
    /\ records' = Put(records, next_task_id,
                      TaskRecordNew(envelope, EnqueueMaxAttempts))
    /\ ready' = Append(ready, next_task_id)
    /\ clientpc' = "notify"
    /\ UNCHANGED <<jobs, attempts, decisions, scheduled, edges, reverse_edges,
                   next_job_id, next_attempt_id, notif, now, pc, lease, local,
                   handler,
                   graph_call, others>>

\* enqueue with the envelope of the tests of memory.rs
Enqueue == EnqueueEnvelope(CallerTaskId)

SubmitJob(n, budget, deadline_ms) ==
    /\ clientpc = "idle"
    /\ LET job == JobRecordNew(budget, deadline_ms)
           r == create_tasks(records, ready, job, next_job_id, next_task_id, n)
       IN /\ jobs' = Put(jobs, next_job_id, r.job)
          /\ records' = r.records
          /\ ready' = r.ready
    /\ next_job_id' = next_job_id + 1
    /\ next_task_id' = next_task_id + n
    /\ clientpc' = "notify"
    /\ UNCHANGED <<attempts, decisions, scheduled, edges, reverse_edges,
                   next_attempt_id, notif, now, pc, lease, local, handler,
                   graph_call, others>>

\* The dependencies a JobSpec declares (TaskSpec::dependencies_hint), as
\* pairs <<i, j>>: the i-th task of the spec waits for the j-th.
Hints(n) == SUBSET ((1..n) \X (1..n))

\* submit_job with a JobSpec whose tasks carry dependency hints:
\* create_job_with_tasks reads task_type and payload only.
SubmitJobWithHint(n, budget, deadline_ms, dependencies_hint) ==
    /\ dependencies_hint \in Hints(n)
    /\ SubmitJob(n, budget, deadline_ms)

\* the notify_one() that ends enqueue and submit_job, after the lock is released
ClientNotify_skip ==
    /\ clientpc = "notify"
    /\ clientpc' = "idle"
    /\ UNCHANGED <<store, notif, now, pc, lease, local, handler, graph_call,
                   others>>

ClientNotify ==
    /\ clientpc = "notify"
    /\ clientpc' = "idle"
    /\ pc' = NotifiedPc(pc)
    /\ NotifyOne
    /\ UNCHANGED <<store, now, lease, local, handler,
                   graph_call, others>>

CancelJob(j) ==
    /\ clientpc = "idle"
    /\ j \in DOMAIN jobs
    /\ jobs' = [jobs EXCEPT ![j] = mark_cancelled(@)]
    /\ UNCHANGED <<records, ready, attempts, decisions, scheduled, edges,
                   reverse_edges, next_job_id, next_task_id, next_attempt_id,
                   notif, now, pc, lease, local, clientpc, handler,
                   graph_call, others>>

\* get_status: the stored job state
get_status(j) == [state |-> jobs[j].state, task_ids |-> jobs[j].task_ids]

\* get_result: the attempts and decisions whose task id is in job.task_ids
get_result(j) ==
    LET ids == {jobs[j].task_ids[i] : i \in DOMAIN jobs[j].task_ids}
    IN [state |-> jobs[j].state,
        task_ids |-> jobs[j].task_ids,
        attempts |-> {a \in DOMAIN attempts : attempts[a].task_id \in ids},
        decisions |-> {i \in DOMAIN decisions : decisions[i].task_id \in ids}]

\* The dependency set-up of the tests of memory.rs: a record with
\* dependencies is inserted without a ready entry and its edges are
\* registered in the graph.
InsertTaskWithDependencies(deps) ==
    /\ clientpc = "idle"
    /\ deps # {} /\ deps \subseteq DOMAIN records
    /\ next_task_id' = allocate_task_id(next_task_id)
    /\ records' = Put(records, next_task_id,
                      [TaskRecordNew(next_task_id, FixtureMaxAttempts)
                          EXCEPT !.depends_on = deps])
    /\ edges' = Put(edges, next_task_id, deps)
    /\ reverse_edges' =
          [x \in DOMAIN reverse_edges \cup deps |->
              IF x \in deps
              THEN get_waiting_tasks(reverse_edges, x) \cup {next_task_id}
              ELSE reverse_edges[x]]
    /\ UNCHANGED <<jobs, ready, attempts, decisions, scheduled, next_job_id,
                   next_attempt_id, notif, now, pc, lease, local, clientpc,
                   handler,
                   graph_call, others>>

\* Time passes.  The clock stops at MaxTime unless a retry is still due later.
Tick ==
    /\ \/ now < MaxTime
       \/ \E i \in DOMAIN scheduled : scheduled[i].next_run_at > now
    /\ now' = now + 1
    /\ UNCHANGED <<store, notif, pc, lease, local, clientpc, handler,
                   graph_call, others>>

\* ------------------------------------------------------ lease()
ReadyPop_keep(rdy) == rdy

ReadyPop(rdy) == Tail(rdy)

LeaseResult_nocancel(recs, rdy) ==
    IF rdy = <<>>
    THEN [kind |-> "wait", records |-> recs, ready |-> rdy, jobs |-> jobs,
          task |-> NoTask]
    ELSE LET task_id == Head(rdy)
             rest == ReadyPop(rdy)
             job_id == IF task_id \in DOMAIN recs THEN recs[task_id].job_id
                       ELSE NoJob
         IN IF job_id # NoJob /\ job_id \in DOMAIN jobs
                /\ is_deadline_exceeded(jobs[job_id])
            THEN [kind |-> "skip", records |-> recs, ready |-> rest,
                  jobs |-> [jobs EXCEPT ![job_id] = mark_stuck(@)],
                  task |-> NoTask]
            ELSE IF task_id \in DOMAIN recs
            THEN [kind |-> "leased",
                  records |-> [recs EXCEPT ![task_id] = start_attempt(@)],
                  ready |-> rest, jobs |-> jobs, task |-> task_id]
            ELSE [kind |-> "wait", records |-> recs, ready |-> rest,
                  jobs |-> jobs, task |-> NoTask]

\* The outcome of the part of lease() that follows promotion, while the lock
\* is held: "leased", "skip" (continue) or "wait".
LeaseResult(recs, rdy) ==
    IF rdy = <<>>
    THEN [kind |-> "wait", records |-> recs, ready |-> rdy, jobs |-> jobs,
          task |-> NoTask]
    ELSE LET task_id == Head(rdy)
             rest == ReadyPop(rdy)
             job_id == IF task_id \in DOMAIN recs THEN recs[task_id].job_id
                       ELSE NoJob
         IN IF job_id # NoJob /\ job_id \in DOMAIN jobs
                /\ is_deadline_exceeded(jobs[job_id])
            THEN [kind |-> "skip", records |-> recs, ready |-> rest,
                  jobs |-> [jobs EXCEPT ![job_id] = mark_stuck(@)],
                  task |-> NoTask]
            ELSE IF job_id # NoJob /\ job_id \in DOMAIN jobs
                    /\ jobs[job_id].state = "Cancelled"
            THEN [kind |-> "skip", records |-> recs, ready |-> rest,
                  jobs |-> jobs, task |-> NoTask]
            ELSE IF task_id \in DOMAIN recs
            THEN [kind |-> "leased",
                  records |-> [recs EXCEPT ![task_id] = start_attempt(@)],
                  ready |-> rest, jobs |-> jobs, task |-> task_id]
            ELSE [kind |-> "wait", records |-> recs, ready |-> rest,
                  jobs |-> jobs, task |-> NoTask]

\* One pass of the loop of lease(): lock, promote, pop.  A caller that is
\* not in a call ("idle"), or a worker that entered its select! ("select"),
\* enters lease() with this pass.
LeaseStep(w) ==
    /\ pc[w] \in {"idle", "lease", "select"}
    /\ \E ord \in PopOrders :
        LET pr == promote_scheduled_tasks(records, ready, ord)
            sch == SelectSeq(scheduled, NotDue)
            r == LeaseResult(pr.records, pr.ready)
        IN /\ scheduled' = sch
           /\ records' = r.records
           /\ ready' = r.ready
           /\ jobs' = r.jobs
           /\ lease' = [lease EXCEPT ![w] = r.task]
           /\ pc' = [pc EXCEPT ![w] = CASE r.kind = "leased" -> "hold"
                                        [] r.kind = "skip" -> "lease"
                                        [] OTHER -> "wait_enter"]
           /\ local' = [local EXCEPT ![w] =
                           IF r.kind = "wait"
                           THEN [NoLocal EXCEPT !.wake = HeapPeekTime(sch)]
                           ELSE NoLocal]
    /\ UNCHANGED <<attempts, decisions, edges, reverse_edges, next_job_id,
                   next_task_id, next_attempt_id, notif, now, clientpc, handler,
                   graph_call, others>>

TimerDue(w) == local[w].wake # NoTime /\ now >= local[w].wake

\* First poll of notified() (and of sleep_until): take the stored permit,
\* or return because the wake time has passed, or register as a waiter.
EnterWait(w) ==
    /\ pc[w] = "wait_enter"
    /\ \/ /\ permit
          /\ permit' = FALSE
          /\ waiters' = waiters
          /\ pc' = [pc EXCEPT ![w] = "lease"]
       \/ /\ TimerDue(w)
          /\ UNCHANGED notif
          /\ pc' = [pc EXCEPT ![w] = "lease"]
       \/ /\ ~permit /\ ~TimerDue(w)
          /\ waiters' = Append(waiters, w)
          /\ permit' = permit
          /\ pc' = [pc EXCEPT ![w] = "waiting"]
    /\ UNCHANGED <<store, now, lease, local, clientpc, handler,
                   graph_call, others>>

\* sleep_until(wake_time) fires while the worker is registered
TimerWake(w) ==
    /\ pc[w] = "waiting"
    /\ TimerDue(w)
    /\ waiters' = SelectSeq(waiters, LAMBDA x : x # w)
    /\ pc' = [pc EXCEPT ![w] = "lease"]
    /\ UNCHANGED <<store, permit, now, lease, local, clientpc, handler,
                   graph_call, others>>

\* ------------------------------------------------------ ack()
\* The loop of ack over the tasks waiting for `done`, in iteration order ws.
RECURSIVE resolve_dependents_eager(_, _, _, _, _, _)
resolve_dependents_eager(recs, rdy, edg, rev, ws, done) ==
    IF ws = <<>>
    THEN [records |-> recs, ready |-> rdy, edges |-> edg, reverse_edges |-> rev]
    ELSE LET wt == Head(ws)
             has == wt \in DOMAIN recs
             recs2 == IF has
                      THEN [recs EXCEPT ![wt] = record_remove_dependency(@, done)]
                      ELSE recs
             rdy2 == IF has /\ recs2[wt].state = "Queued"
                     THEN Append(rdy, wt) ELSE rdy
         IN resolve_dependents_eager(recs2, rdy2, MapRemove(edg, wt, done),
                                     MapRemove(rev, done, wt), Tail(ws), done)

RECURSIVE resolve_dependents(_, _, _, _, _, _)
resolve_dependents(recs, rdy, edg, rev, ws, done) ==
    IF ws = <<>>
    THEN [records |-> recs, ready |-> rdy, edges |-> edg, reverse_edges |-> rev]
    ELSE LET wt == Head(ws)
             has == wt \in DOMAIN recs
             recs2 == IF has
                      THEN [recs EXCEPT ![wt] = record_remove_dependency(@, done)]
                      ELSE recs
             rdy2 == IF has /\ ~record_has_dependencies(recs2[wt])
                        /\ recs2[wt].state = "Queued"
                     THEN Append(rdy, wt) ELSE rdy
         IN resolve_dependents(recs2, rdy2, MapRemove(edg, wt, done),
                               MapRemove(rev, done, wt), Tail(ws), done)

InsertAttempt(atts, attempt_id, task_id, kind) ==
    Put(atts, attempt_id, AttemptRecordNew(attempt_id, task_id, kind))

AckBody(w) ==
    LET task_id == lease[w]
        waiting == get_waiting_tasks(reverse_edges, task_id)
    IN /\ attempts' = InsertAttempt(attempts, next_attempt_id, task_id, "Success")
       /\ next_attempt_id' = allocate_attempt_id(next_attempt_id)
       /\ \E ord \in Perms(waiting) :
            LET recs1 == IF task_id \in DOMAIN records
                         THEN [records EXCEPT ![task_id] = mark_succeeded(@)]
                         ELSE records
                r == resolve_dependents(recs1, ready, edges, reverse_edges,
                                        ord, task_id)
            IN /\ records' = r.records
               /\ ready' = r.ready
               /\ edges' = r.edges
               /\ reverse_edges' = r.reverse_edges
       /\ lease' = [lease EXCEPT ![w] = NoTask]
       /\ pc' = [pc EXCEPT ![w] = "idle"]
       /\ local' = [local EXCEPT ![w] = NoLocal]
       /\ UNCHANGED <<jobs, decisions, scheduled, next_job_id, next_task_id,
                      notif, now, clientpc, handler,
                   graph_call, others>>

\* ------------------------------------------------------ fail()
FailBody(w) ==
    LET task_id == lease[w]
        record == records[task_id]
        delay == next_delay(record.attempts)
        next_run_at == now + delay
    IN /\ attempts' = InsertAttempt(attempts, next_attempt_id, task_id, "Failure")
       /\ next_attempt_id' = allocate_attempt_id(next_attempt_id)
       /\ IF task_id \notin DOMAIN records
          THEN /\ pc' = [pc EXCEPT ![w] = "idle"]
               /\ UNCHANGED <<records, decisions, scheduled>>
          ELSE IF record.attempts >= record.max_attempts
          THEN /\ records' = [records EXCEPT ![task_id] = mark_dead(@)]
               /\ decisions' = Append(decisions,
                     DecisionRecordNew(task_id, 0, "retry_policy", "mark_dead"))
               /\ pc' = [pc EXCEPT ![w] = "idle"]
               /\ UNCHANGED scheduled
          ELSE /\ records' = [records EXCEPT
                                 ![task_id] = schedule_retry(@, next_run_at)]
               /\ decisions' = Append(decisions,
                     DecisionRecordNew(task_id, 0, "retry_policy", "schedule_retry"))
               /\ scheduled' = HeapPush(scheduled, next_run_at, task_id)
               /\ pc' = [pc EXCEPT ![w] = "c_notify"]
       /\ lease' = [lease EXCEPT ![w] = NoTask]
       /\ local' = [local EXCEPT ![w] = NoLocal]
       /\ UNCHANGED <<jobs, ready, edges, reverse_edges, next_job_id,
                      next_task_id, notif, now, clientpc, handler,
                   graph_call, others>>

\* ------------------------------------------------------ complete()
Decisions ==
    {[kind |-> "Retry", delay |-> d, nchild |-> 0] : d \in 0..MaxDelay}
    \cup {[kind |-> "MarkDead", delay |-> 0, nchild |-> 0]}
    \cup {[kind |-> "Decompose", delay |-> 0, nchild |-> n] : n \in 0..MaxChildren}

\* First critical section: the AttemptRecord is allocated and inserted.
\* next_run_at of a Retry is computed right after the lock is released.
CompleteAttempt(w, outcome, d) ==
    /\ attempts' = InsertAttempt(attempts, next_attempt_id, lease[w], outcome)
    /\ next_attempt_id' = allocate_attempt_id(next_attempt_id)
    /\ local' = [local EXCEPT ![w] =
                    [NoLocal EXCEPT !.outcome = outcome,
                                    !.decision = d.kind,
                                    !.nchild = d.nchild,
                                    !.attempt_id = next_attempt_id,
                                    !.next_run_at = IF d.kind = "Retry"
                                                    THEN now + d.delay
                                                    ELSE NoTime]]
    /\ pc' = [pc EXCEPT ![w] = CASE d.kind = "Retry" -> "c_retry"
                                 [] d.kind = "MarkDead" -> "c_dead"
                                 [] OTHER -> "c_child1"]
    /\ UNCHANGED <<jobs, records, ready, decisions, scheduled, edges,
                   reverse_edges, next_job_id, next_task_id, notif, now, lease,
                   clientpc, handler,
                   graph_call, others>>

CompleteRetry(w) ==
    /\ pc[w] = "c_retry"
    /\ LET task_id == lease[w]
       IN IF task_id \in DOMAIN records
          THEN /\ records' = [records EXCEPT ![task_id] =
                                 schedule_retry(@, local[w].next_run_at)]
               /\ decisions' = Append(decisions,
                     DecisionRecordNew(task_id, local[w].attempt_id,
                                       "retry_policy", "schedule_retry"))
               /\ scheduled' = HeapPush(scheduled, local[w].next_run_at, task_id)
          ELSE UNCHANGED <<records, decisions, scheduled>>
    /\ lease' = [lease EXCEPT ![w] = NoTask]
    /\ local' = [local EXCEPT ![w] = NoLocal]
    /\ pc' = [pc EXCEPT ![w] = "c_notify"]
    /\ UNCHANGED <<jobs, ready, attempts, edges, reverse_edges, next_job_id,
                   next_task_id, next_attempt_id, notif, now, clientpc, handler,
                   graph_call, others>>

\* notify_one() at the end of complete(Retry) and of fail()
CompleteNotify(w) ==
    /\ pc[w] = "c_notify"
    /\ pc' = NotifiedPc([pc EXCEPT ![w] = "idle"])
    /\ NotifyOne
    /\ UNCHANGED <<store, now, lease, local, clientpc, handler,
                   graph_call, others>>

\* complete(MarkDead) that releases the tasks waiting for the dead task
CompleteMarkDead_release(w) ==
    /\ pc[w] = "c_dead"
    /\ LET task_id == lease[w]
           waiting == get_waiting_tasks(reverse_edges, task_id)
       IN \E ord \in Perms(waiting) :
            LET recs1 == IF task_id \in DOMAIN records
                         THEN [records EXCEPT ![task_id] = mark_dead(@)]
                         ELSE records
                r == resolve_dependents(recs1, ready, edges, reverse_edges,
                                        ord, task_id)
            IN /\ records' = r.records
               /\ ready' = r.ready
               /\ edges' = r.edges
               /\ reverse_edges' = r.reverse_edges
               /\ decisions' = IF task_id \in DOMAIN records
                               THEN Append(decisions,
                                       DecisionRecordNew(task_id,
                                          local[w].attempt_id,
                                          "retry_policy", "mark_dead"))
                               ELSE decisions
    /\ lease' = [lease EXCEPT ![w] = NoTask]
    /\ local' = [local EXCEPT ![w] = NoLocal]
    /\ pc' = [pc EXCEPT ![w] = "idle"]
    /\ UNCHANGED <<jobs, attempts, scheduled, next_job_id, next_task_id,
                   next_attempt_id, notif, now, clientpc, handler,
                   graph_call, others>>

CompleteMarkDead(w) ==
    /\ pc[w] = "c_dead"
    /\ LET task_id == lease[w]
       IN IF task_id \in DOMAIN records
          THEN /\ records' = [records EXCEPT ![task_id] = mark_dead(@)]
               /\ decisions' = Append(decisions,
                     DecisionRecordNew(task_id, local[w].attempt_id,
                                       "retry_policy", "mark_dead"))
          ELSE UNCHANGED <<records, decisions>>
    /\ lease' = [lease EXCEPT ![w] = NoTask]
    /\ local' = [local EXCEPT ![w] = NoLocal]
    /\ pc' = [pc EXCEPT ![w] = "idle"]
    /\ UNCHANGED <<jobs, ready, attempts, scheduled, edges, reverse_edges,
                   next_job_id, next_task_id, next_attempt_id, notif, now,
                   clientpc, handler,
                   graph_call, others>>

\* add_child_tasks, phase 1: parent and job lookup, allocation of the ids.
\* An error here is returned by complete: the lease is dropped.
AddChildTasksAllocate(w) ==
    /\ pc[w] = "c_child1"
    /\ LET task_id == lease[w]
           n == local[w].nchild
       IN IF task_id \notin DOMAIN records \/ records[task_id].job_id = NoJob
          THEN /\ lease' = [lease EXCEPT ![w] = NoTask]
               /\ local' = [local EXCEPT ![w] = NoLocal]
               /\ pc' = [pc EXCEPT ![w] = "idle"]
               /\ UNCHANGED next_task_id
          ELSE /\ next_task_id' = next_task_id + n
               /\ local' = [local EXCEPT ![w].child_ids =
                               [i \in 1..n |-> next_task_id + i - 1]]
               /\ pc' = [pc EXCEPT ![w] = "c_child3"]
               /\ UNCHANGED lease
    /\ UNCHANGED <<jobs, records, ready, attempts, decisions, scheduled, edges,
                   reverse_edges, next_job_id, next_attempt_id, notif, now,
                   clientpc, handler,
                   graph_call, others>>

RECURSIVE insert_children_front(_, _, _, _)
insert_children_front(recs, rdy, ids, child) ==
    IF ids = <<>> THEN [records |-> recs, ready |-> rdy]
    ELSE insert_children_front(Put(recs, Head(ids),
                                   [child EXCEPT !.envelope = Head(ids)]),
                               <<Head(ids)>> \o rdy, Tail(ids), child)

RECURSIVE insert_children(_, _, _, _)
insert_children(recs, rdy, ids, child) ==
    IF ids = <<>> THEN [records |-> recs, ready |-> rdy]
    ELSE insert_children(Put(recs, Head(ids),
                             [child EXCEPT !.envelope = Head(ids)]),
                         Append(rdy, Head(ids)), Tail(ids), child)

\* add_child_tasks, phases 2 and 3: one child record per allocated id, with
\* an envelope of that id, and the ready entries.
AddChildTasksInsert(w) ==
    /\ pc[w] = "c_child3"
    /\ LET task_id == lease[w]
           parent == records[task_id]
           r == insert_children(records, ready, local[w].child_ids,
                    new_child(NoTask, parent.max_attempts, parent.job_id,
                              task_id))
       IN /\ records' = [r.records EXCEPT ![task_id].child_task_ids =
                                             local[w].child_ids]
          /\ ready' = r.ready
    /\ pc' = [pc EXCEPT ![w] = "c_child_notify"]
    /\ UNCHANGED <<jobs, attempts, decisions, scheduled, edges, reverse_edges,
                   next_job_id, next_task_id, next_attempt_id, notif, now,
                   lease, local, clientpc, handler,
                   graph_call, others>>

AddChildTasksNotify(w) ==
    /\ pc[w] = "c_child_notify"
    /\ pc' = NotifiedPc([pc EXCEPT ![w] = "c_decomp"])
    /\ NotifyOne
    /\ UNCHANGED <<store, now, lease, local, clientpc, handler,
                   graph_call, others>>

CompleteDecompose(w) ==
    /\ pc[w] = "c_decomp"
    /\ LET task_id == lease[w]
       IN IF task_id \in DOMAIN records
          THEN /\ records' = [records EXCEPT ![task_id].state = "Decomposed"]
               /\ decisions' = Append(decisions,
                     DecisionRecordNew(task_id, local[w].attempt_id,
                                       "decomposition", "decompose"))
          ELSE UNCHANGED <<records, decisions>>
    /\ lease' = [lease EXCEPT ![w] = NoTask]
    /\ local' = [local EXCEPT ![w] = NoLocal]
    /\ pc' = [pc EXCEPT ![w] = "idle"]
    /\ UNCHANGED <<jobs, ready, attempts, scheduled, edges, reverse_edges,
                   next_job_id, next_task_id, next_attempt_id, notif, now,
                   clientpc, handler,
                   graph_call, others>>

\* ------------------------------------------------------ callers of the lease API
Ack(w) == pc[w] = "hold" /\ AckBody(w)

Fail(w) == pc[w] = "hold" /\ FailBody(w)

\* The outcomes a caller reports with each decision: a proposal of child
\* tasks comes with Success, a retry or a give-up with Failure or Blocked.
OutcomesFor(d) ==
    CASE d.kind = "Decompose" -> {"Success"}
      [] d.kind = "MarkDead" -> {"Failure", "Blocked"}
      [] OTHER -> {"Failure"}

Complete(w) ==
    /\ pc[w] = "hold"
    /\ \E d \in Decisions : \E outcome \in OutcomesFor(d) :
          CompleteAttempt(w, outcome, d)

\* ------------------------------------------------------ worker.rs
\* FailingHandler::handle: fails while remaining_failures > 0
HandlerRun(w) ==
    /\ pc[w] = "hold"
    /\ IF remaining_failures > 0
       THEN /\ remaining_failures' = remaining_failures - 1
            /\ local' = [local EXCEPT ![w].outcome = "Failure"]
            /\ pc' = [pc EXCEPT ![w] = "w_failed"]
       ELSE /\ remaining_failures' = remaining_failures
            /\ local' = [local EXCEPT ![w].outcome = "Success"]
            /\ pc' = [pc EXCEPT ![w] = "w_ok"]
    /\ UNCHANGED <<store, notif, now, lease, clientpc, fail_first,
                   graph_call, others>>

\* OutcomeKind::Success without child_tasks: lease.ack()
WorkerAck(w) == pc[w] = "w_ok" /\ AckBody(w)

\* get_task_record() and decider.decide()
WorkerDecide(w) ==
    /\ pc[w] = "w_failed"
    /\ lease[w] \in DOMAIN records
    /\ LET d == decide(records[lease[w]])
       IN local' = [local EXCEPT ![w].decision = d.kind, ![w].delay = d.delay,
                                 ![w].nchild = d.nchild]
    /\ pc' = [pc EXCEPT ![w] = "w_decided"]
    /\ UNCHANGED <<store, notif, now, lease, clientpc, handler,
                   graph_call, others>>

\* lease.complete(outcome, decision)
WorkerComplete(w) ==
    /\ pc[w] = "w_decided"
    /\ CompleteAttempt(w, local[w].outcome,
                       [kind |-> local[w].decision, delay |-> local[w].delay,
                        nchild |-> local[w].nchild])

\* DecomposingHandler::handle: the first call returns Success with a
\* proposal of ProposedChildren child tasks, later calls plain Success
DecomposingHandlerRun(w) ==
    /\ pc[w] = "hold"
    /\ decompose_on_first' = FALSE
    /\ IF decompose_on_first
       THEN /\ local' = [local EXCEPT ![w].outcome = "Success",
                                      ![w].child_tasks = ProposedChildren]
            /\ pc' = [pc EXCEPT ![w] = "w_children"]
       ELSE /\ local' = [local EXCEPT ![w].outcome = "Success"]
            /\ pc' = [pc EXCEPT ![w] = "w_ok"]
    /\ UNCHANGED <<store, notif, now, lease, clientpc, handler, graph_call,
                   group, delivery,
                   job_call>>

\* OutcomeKind::Success with child_tasks: get_task_record() and
\* decider.decide(), which does not read the outcome
WorkerDecideChildren(w) ==
    /\ pc[w] = "w_children"
    /\ lease[w] \in DOMAIN records
    /\ LET d == decide(records[lease[w]])
       IN local' = [local EXCEPT ![w].decision = d.kind, ![w].delay = d.delay,
                                 ![w].nchild = d.nchild]
    /\ pc' = [pc EXCEPT ![w] = "w_decided"]
    /\ UNCHANGED <<store, notif, now, lease, clientpc, handler, graph_call,
                   others>>

\* runtime.execute() returns Err: no handler is registered for the task
\* type, or the handler returned an error
HandlerError(w) ==
    /\ pc[w] = "hold"
    /\ local' = [local EXCEPT ![w].outcome = "Err"]
    /\ pc' = [pc EXCEPT ![w] = "w_error"]
    /\ UNCHANGED <<store, notif, now, lease, clientpc, handler, graph_call,
                   others>>

WorkerDecideError_escape(w) ==
    /\ pc[w] = "w_error"
    /\ pc' = [pc EXCEPT ![w] = "exited"]
    /\ UNCHANGED <<store, notif, now, lease, local, clientpc, handler,
                   graph_call, others>>

\* Err(handler_error): the error becomes an Outcome of kind Failure without
\* child_tasks, then get_task_record() and decider.decide()
WorkerDecideError(w) ==
    /\ pc[w] = "w_error"
    /\ lease[w] \in DOMAIN records
    /\ LET d == decide(records[lease[w]])
       IN local' = [local EXCEPT ![w].outcome = "Failure",
                                 ![w].child_tasks = 0,
                                 ![w].decision = d.kind, ![w].delay = d.delay,
                                 ![w].nchild = d.nchild]
    /\ pc' = [pc EXCEPT ![w] = "w_decided"]
    /\ UNCHANGED <<store, notif, now, lease, clientpc, handler, graph_call,
                   others>>

\* Top of worker_loop: break when the watch channel holds true, otherwise
\* enter the select! over shutdown_rx.changed() and queue.lease()
WorkerLoopTop(w) ==
    /\ pc[w] = "idle"
    /\ pc' = [pc EXCEPT ![w] = IF shutdown THEN "exited" ELSE "select"]
    /\ UNCHANGED <<store, notif, now, lease, local, clientpc, handler,
                   graph_call, others>>

\* The branch shutdown_rx.changed() of the select!: the lease() future is
\* dropped where it waits and the loop continues at its top.
ShutdownChanged_deaf(w) ==
    /\ shutdown
    /\ pc[w] = "select"
    /\ pc' = [pc EXCEPT ![w] = "idle"]
    /\ UNCHANGED <<store, notif, now, lease, local, clientpc, handler,
                   graph_call, others>>

\* A dropped Notified future leaves the waiter list; one that had consumed
\* a notification (pc "lease" after waiting) passes it on with notify_one.
ShutdownChanged(w) ==
    /\ shutdown
    /\ pc[w] \in {"select", "lease", "wait_enter", "waiting"}
    /\ LET left == SelectSeq(waiters, LAMBDA x : x # w)
       IN \/ /\ waiters' = left
             /\ permit' = permit
             /\ pc' = [pc EXCEPT ![w] = "idle"]
          \/ /\ pc[w] = "lease"
             /\ waiters' = IF left # <<>> THEN Tail(left) ELSE left
             /\ permit' = IF left # <<>> THEN permit ELSE TRUE
             /\ pc' = [(IF left # <<>> THEN [pc EXCEPT ![Head(left)] = "lease"]
                        ELSE pc) EXCEPT ![w] = "idle"]
    /\ local' = [local EXCEPT ![w] = NoLocal]
    /\ UNCHANGED <<store, now, lease, clientpc, handler, graph_call, others>>

\* WorkerGroup::request_shutdown
RequestShutdown ==
    /\ ~shutdown
    /\ shutdown' = TRUE
    /\ UNCHANGED <<store, notif, now, pc, lease, local, clientpc, handler,
                   graph_call, decompose_on_first, joinpc, delivery,
                   job_call>>

\* WorkerGroup::shutdown_and_join: request_shutdown(), then await the joins
ShutdownAndJoin ==
    /\ joinpc = "idle"
    /\ shutdown' = TRUE
    /\ joinpc' = "joining"
    /\ UNCHANGED <<store, notif, now, pc, lease, local, clientpc, handler,
                   graph_call, decompose_on_first, delivery,
                   job_call>>

JoinReturn ==
    /\ joinpc = "joining"
    /\ \A w \in Workers : pc[w] = "exited"
    /\ joinpc' = "joined"
    /\ UNCHANGED <<store, notif, now, pc, lease, local, clientpc, handler,
                   graph_call, decompose_on_first, shutdown, delivery,
                   job_call>>

\* ------------------------------------------------------ inmem_delivery.rs
Namespaces == {"ns1", "ns2"}

\* the VecDeque of a namespace, empty when the map has no entry for it
QueueOf(qs, ns) == IF ns \in DOMAIN qs THEN qs[ns] ELSE <<>>

RECURSIVE Held(_, _)
Held(qs, S) ==
    IF S = {} THEN 0
    ELSE LET ns == CHOOSE x \in S : TRUE
         IN Len(qs[ns]) + Held(qs, S \ {ns})

\* number of push calls made so far: the elements still held and those
\* handed to a pop
Pushed ==
    Held(queues, DOMAIN queues)
       + Cardinality({p \in Poppers : pop_call[p].returned = "Some"})

CvWaiting == {p \in Poppers : pop_call[p].at = "cv_wait"}

\* push: lock, entry(ns).or_default().push_back(task_id), and
\* condvar.notify_one(), which wakes any one thread waiting on the Condvar
DeliveryPush(ns) ==
    /\ queues' = Put(queues, ns, Append(QueueOf(queues, ns), Pushed + 1))
    /\ IF CvWaiting = {}
       THEN pop_call' = pop_call
       ELSE \E p \in CvWaiting : pop_call' = [pop_call EXCEPT ![p].at = "woken"]
    /\ UNCHANGED <<store, notif, now, pc, lease, local, clientpc, handler,
                   graph_call, decompose_on_first, group,
                   job_call>>

\* pop is called: start = Instant::now(), then the lock is requested
DeliveryPopCall(p, ns, timeout) ==
    /\ pop_call[p].at = "idle"
    /\ pop_call' = [pop_call EXCEPT ![p] =
                       [NoPop EXCEPT !.at = "locked", !.ns = ns, !.start = now,
                                     !.timeout = timeout]]
    /\ UNCHANGED <<store, notif, now, pc, lease, local, clientpc, handler,
                   graph_call, decompose_on_first, group, queues,
                   job_call>>

\* One pass of the loop of pop with the lock held: None when the timeout
\* has elapsed, else the front element, else wait on the Condvar.
DeliveryPopLoop(p) ==
    /\ pop_call[p].at \in {"locked", "woken"}
    /\ LET c == pop_call[p]
           q == QueueOf(queues, c.ns)
       IN IF now - c.start >= c.timeout
          THEN /\ pop_call' = [pop_call EXCEPT ![p].at = "done",
                                               ![p].returned = "None"]
               /\ queues' = queues
          ELSE IF q # <<>>
          THEN /\ pop_call' = [pop_call EXCEPT ![p].at = "done",
                                               ![p].returned = "Some",
                                               ![p].task = Head(q)]
               /\ queues' = [queues EXCEPT ![c.ns] = Tail(q)]
          ELSE /\ pop_call' = [pop_call EXCEPT ![p].at = "cv_wait"]
               /\ queues' = queues
    /\ UNCHANGED <<store, notif, now, pc, lease, local, clientpc, handler,
                   graph_call, decompose_on_first, group,
                   job_call>>

\* wait_timeout(guard, remaining) ends because the time is up; the thread
\* still has to take the lock again
DeliveryPopTimeout(p) ==
    /\ pop_call[p].at = "cv_wait"
    /\ now >= pop_call[p].start + pop_call[p].timeout
    /\ pop_call' = [pop_call EXCEPT ![p].at = "timed_out"]
    /\ UNCHANGED <<store, notif, now, pc, lease, local, clientpc, handler,
                   graph_call, decompose_on_first, group, queues,
                   job_call>>

\* wait_timeout may also return without a notification (spurious wake-up)
DeliveryPopSpurious(p) ==
    /\ pop_call[p].at = "cv_wait"
    /\ pop_call' = [pop_call EXCEPT ![p].at = "woken"]
    /\ UNCHANGED <<store, notif, now, pc, lease, local, clientpc, handler,
                   graph_call, decompose_on_first, group, queues,
                   job_call>>

\* the lock is taken again after the wait; result.timed_out() returns None
DeliveryPopTimedOut(p) ==
    /\ pop_call[p].at = "timed_out"
    /\ pop_call' = [pop_call EXCEPT ![p].at = "done", ![p].returned = "None"]
    /\ UNCHANGED <<store, notif, now, pc, lease, local, clientpc, handler,
                   graph_call, decompose_on_first, group, queues,
                   job_call>>

\* ------------------------------------------------------ specifications
Init ==
    /\ jobs = <<>>
    /\ records = <<>>
    /\ ready = <<>>
    /\ attempts = <<>>
    /\ decisions = <<>>
    /\ scheduled = <<>>
    /\ edges = <<>>
    /\ reverse_edges = <<>>
    /\ next_job_id = 1
    /\ next_task_id = 1
    /\ next_attempt_id = 1
    /\ permit = FALSE
    /\ waiters = <<>>
    /\ now = 0
    /\ pc = [w \in Workers |-> "idle"]
    /\ lease = [w \in Workers |-> NoTask]
    /\ local = [w \in Workers |-> NoLocal]
    /\ clientpc = "idle"
    /\ remaining_failures = 0
    /\ fail_first = 0
    /\ graph_call = NoCall
    /\ decompose_on_first = FALSE
    /\ shutdown = FALSE
    /\ joinpc = "idle"
    /\ queues = <<>>
    /\ pop_call = [p \in Poppers |-> NoPop]
    /\ job_call = NoJobCall

LeaseOps(w) ==
    \/ LeaseStep(w)
    \/ EnterWait(w)
    \/ TimerWake(w)

\* lease() while the bound on the number of leases is not reached
BoundedLeaseOps(w) ==
    \/ LeasesIssued < MaxLeases /\ LeaseStep(w)
    \/ EnterWait(w)
    \/ TimerWake(w)

CompleteOps(w) ==
    \/ CompleteRetry(w)
    \/ CompleteNotify(w)
    \/ CompleteMarkDead(w)
    \/ AddChildTasksAllocate(w)
    \/ AddChildTasksInsert(w)
    \/ AddChildTasksNotify(w)
    \/ CompleteDecompose(w)

\* Task ids handed out, and ids that a complete(Decompose) in progress is
\* about to allocate in add_child_tasks.
Reserved(S) ==
    Cardinality({<<w, i>> \in S \X (1..MaxChildren + MaxSplit) :
                    /\ pc[w] = "c_child1"
                    /\ lease[w] \in DOMAIN records
                    /\ records[lease[w]].job_id # NoJob
                    /\ i <= local[w].nchild})

TasksInUse == next_task_id - 1 + Reserved(Workers)

\* complete() with a decision whose children still fit the bound on tasks
BoundedComplete(w, limit) ==
    /\ Complete(w)
    /\ TasksInUse + local'[w].nchild <= limit

Next ==
    \/ TasksInUse < MaxTasks /\ Enqueue
    \/ \E n \in 0..MaxJobTasks, b \in Budgets, d \in Deadlines :
          /\ next_job_id <= MaxJobs
          /\ TasksInUse + n <= MaxTasks
          /\ SubmitJob(n, b, d)
    \/ ClientNotify
    \/ \E j \in DOMAIN jobs : CancelJob(j)
    \/ \E deps \in SUBSET (DOMAIN records) :
          TasksInUse < MaxTasks /\ InsertTaskWithDependencies(deps)
    \/ Tick
    \/ \E w \in Workers : BoundedLeaseOps(w)
    \/ \E w \in Workers : Ack(w)
    \/ \E w \in Workers : Fail(w)
    \/ \E w \in Workers : BoundedComplete(w, MaxTasks)
    \/ \E w \in Workers : CompleteOps(w)

Spec == Init /\ [][Next]_vars

\* A job whose tasks are decomposed: submit_job, lease, ack and complete with
\* Decision::Decompose of up to MaxSplit children.
DecomposeDecisions ==
    {[kind |-> "Decompose", delay |-> 0, nchild |-> n] : n \in 0..MaxSplit}

CompleteWithDecompose(w) ==
    /\ pc[w] = "hold"
    /\ \E d \in DecomposeDecisions :
          /\ TasksInUse + d.nchild <= MaxFamily
          /\ CompleteAttempt(w, "Success", d)

SubmitJobSpec ==
    \E n \in 1..MaxJobSpecTasks, b \in 1..MaxBudget, hint \in Hints(MaxJobSpecTasks) :
        /\ next_job_id <= MaxJobs
        /\ TasksInUse + n <= MaxFamily
        /\ SubmitJobWithHint(n, b, NoTime, hint)

NextJob ==
    \/ SubmitJobSpec
    \/ TasksInUse < MaxFamily /\ Enqueue
    \/ ClientNotify
    \/ \E w \in Workers : LeasesIssued < MaxJobLeases /\ LeaseStep(w)
    \/ \E w \in Workers : EnterWait(w)
    \/ \E w \in Workers : Ack(w)
    \/ \E w \in Workers : CompleteWithDecompose(w)
    \/ \E w \in Workers : AddChildTasksAllocate(w)
    \/ \E w \in Workers : AddChildTasksInsert(w)
    \/ \E w \in Workers : AddChildTasksNotify(w)
    \/ \E w \in Workers : CompleteDecompose(w)

SpecJob == Init /\ [][NextJob]_vars

\* The set-up of test_multiple_dependencies and of
\* test_dependency_resolution_on_task_completion: tasks A and B, and a task
\* C that waits for some of them (B may wait for A as well); a task without
\* dependencies is pushed to ready, the edges are registered in the graph,
\* and the test calls notify_one() before it leases.
TaskA == 1
TaskB == 2
TaskC == 3

RECURSIVE add_dependencies(_, _, _)
add_dependencies(g, task, deps) ==
    IF deps = {} THEN g
    ELSE LET d == CHOOSE x \in deps : TRUE
         IN add_dependencies(add_dependency(g, task, d), task, deps \ {d})

FixtureRecord(task_id, deps) ==
    [TaskRecordNew(task_id, FixtureMaxAttempts) EXCEPT !.depends_on = deps]

InitDeps ==
    \E depsB \in SUBSET {TaskA}, depsC \in (SUBSET {TaskA, TaskB}) \ {{}} :
        LET g == add_dependencies(
                    add_dependencies([edges |-> <<>>, reverse_edges |-> <<>>],
                                     TaskB, depsB),
                    TaskC, depsC)
        IN /\ records = <<FixtureRecord(TaskA, {}), FixtureRecord(TaskB, depsB),
                           FixtureRecord(TaskC, depsC)>>
           /\ ready = IF depsB = {} THEN <<TaskA, TaskB>> ELSE <<TaskA>>
           /\ edges = g.edges
           /\ reverse_edges = g.reverse_edges
           /\ jobs = <<>>
           /\ attempts = <<>>
           /\ decisions = <<>>
           /\ scheduled = <<>>
           /\ next_job_id = 1
           /\ next_task_id = TaskC + 1
           /\ next_attempt_id = 1
           /\ permit = FALSE
           /\ waiters = <<>>
           /\ now = 0
           /\ pc = [w \in Workers |-> "idle"]
           /\ lease = [w \in Workers |-> NoTask]
           /\ local = [w \in Workers |-> NoLocal]
           /\ clientpc = "notify"
           /\ remaining_failures = 0
           /\ fail_first = 0
           /\ graph_call = NoCall
           /\ decompose_on_first = FALSE
           /\ shutdown = FALSE
           /\ joinpc = "idle"
           /\ queues = <<>>
           /\ pop_call = [p \in Poppers |-> NoPop]
           /\ job_call = NoJobCall

NextDeps ==
    \/ ClientNotify
    \/ Tick
    \/ \E w \in Workers : LeasesIssued < MaxDepLeases /\ LeaseStep(w)
    \/ \E w \in Workers : EnterWait(w)
    \/ \E w \in Workers : TimerWake(w)
    \/ \E w \in Workers : Ack(w)
    \/ \E w \in Workers : Fail(w)
    \/ \E w \in Workers : CompleteNotify(w)

SpecDeps == InitDeps /\ [][NextDeps]_vars

\* The dependency graph alone: any sequence of add_dependency,
\* remove_dependency and detect_cycle calls over MaxNodes task ids.
Nodes == 1..MaxNodes

EdgeCount == Cardinality({ab \in Nodes \X Nodes :
                            ab[2] \in get_dependencies(edges, ab[1])})

AddDependency(task, depends_on) ==
    /\ EdgeCount < MaxEdges \/ depends_on \in get_dependencies(edges, task)
    /\ LET g == add_dependency([edges |-> edges, reverse_edges |-> reverse_edges],
                               task, depends_on)
       IN edges' = g.edges /\ reverse_edges' = g.reverse_edges
    /\ graph_call' = [op |-> "add_dependency", task |-> task,
                      depends_on |-> depends_on, result |-> <<>>]
    /\ UNCHANGED <<jobs, records, ready, attempts, decisions, scheduled,
                   next_job_id, next_task_id, next_attempt_id, notif, now, pc,
                   lease, local, clientpc, handler, others>>

RemoveDependency(task, depends_on) ==
    /\ LET g == remove_dependency([edges |-> edges,
                                   reverse_edges |-> reverse_edges],
                                  task, depends_on)
       IN edges' = g.edges /\ reverse_edges' = g.reverse_edges
    /\ graph_call' = [op |-> "remove_dependency", task |-> task,
                      depends_on |-> depends_on, result |-> <<>>]
    /\ UNCHANGED <<jobs, records, ready, attempts, decisions, scheduled,
                   next_job_id, next_task_id, next_attempt_id, notif, now, pc,
                   lease, local, clientpc, handler, others>>

DetectCycle ==
    /\ graph_call.op # "detect_cycle"
    /\ \E starts \in Perms(start_points(reverse_edges)) :
       \E ord \in Perms(start_points(reverse_edges)) :
          graph_call' = [op |-> "detect_cycle", task |-> NoTask,
                         depends_on |-> NoTask,
                         result |-> detect_cycle(edges, reverse_edges, starts, ord)]
    /\ UNCHANGED <<store, notif, now, pc, lease, local, clientpc, handler, others>>

NextGraph ==
    \/ \E a, b \in Nodes : AddDependency(a, b)
    \/ \E a, b \in Nodes : RemoveDependency(a, b)
    \/ DetectCycle

SpecGraph == Init /\ [][NextGraph]_vars

\* One task, the worker group of worker.rs with the default decider and a
\* FailingHandler::new(fail_first).
InitWorker ==
    /\ jobs = <<>>
    /\ records = <<>>
    /\ ready = <<>>
    /\ attempts = <<>>
    /\ decisions = <<>>
    /\ scheduled = <<>>
    /\ edges = <<>>
    /\ reverse_edges = <<>>
    /\ next_job_id = 1
    /\ next_task_id = 1
    /\ next_attempt_id = 1
    /\ permit = FALSE
    /\ waiters = <<>>
    /\ now = 0
    /\ pc = [w \in Workers |-> "idle"]
    /\ lease = [w \in Workers |-> NoTask]
    /\ local = [w \in Workers |-> NoLocal]
    /\ clientpc = "idle"
    /\ fail_first \in 0..MaxFail
    /\ remaining_failures = fail_first
    /\ graph_call = NoCall
    /\ decompose_on_first = FALSE
    /\ shutdown = FALSE
    /\ joinpc = "idle"
    /\ queues = <<>>
    /\ pop_call = [p \in Poppers |-> NoPop]
    /\ job_call = NoJobCall

EnqueueOne == next_task_id = 1 /\ Enqueue

SubmitOne == next_task_id = 1 /\ \E b \in 1..MaxBudget : SubmitJob(1, b, NoTime)

WorkerOps(w) ==
    \/ HandlerRun(w)
    \/ WorkerAck(w)
    \/ WorkerDecide(w)
    \/ WorkerComplete(w)
    \/ CompleteRetry(w)
    \/ CompleteNotify(w)
    \/ CompleteMarkDead(w)

NextWorker ==
    \/ EnqueueOne
    \/ SubmitOne
    \/ ClientNotify
    \/ Tick
    \/ \E w \in Workers : LeaseOps(w)
    \/ \E w \in Workers : WorkerOps(w)

SpecWorker ==
    /\ InitWorker
    /\ [][NextWorker]_vars
    /\ WF_vars(ClientNotify)
    /\ WF_vars(Tick)
    /\ \A w \in Workers : WF_vars(LeaseOps(w)) /\ WF_vars(WorkerOps(w))

\* One task, the worker group with the default decider and a
\* DecomposingHandler (test_task_decomposition_integration).
InitDecomposer ==
    /\ jobs = <<>>
    /\ records = <<>>
    /\ ready = <<>>
    /\ attempts = <<>>
    /\ decisions = <<>>
    /\ scheduled = <<>>
    /\ edges = <<>>
    /\ reverse_edges = <<>>
    /\ next_job_id = 1
    /\ next_task_id = 1
    /\ next_attempt_id = 1
    /\ permit = FALSE
    /\ waiters = <<>>
    /\ now = 0
    /\ pc = [w \in Workers |-> "idle"]
    /\ lease = [w \in Workers |-> NoTask]
    /\ local = [w \in Workers |-> NoLocal]
    /\ clientpc = "idle"
    /\ fail_first = 0
    /\ remaining_failures = 0
    /\ graph_call = NoCall
    /\ decompose_on_first = TRUE
    /\ shutdown = FALSE
    /\ joinpc = "idle"
    /\ queues = <<>>
    /\ pop_call = [p \in Poppers |-> NoPop]
    /\ job_call = NoJobCall

DecomposerOps(w) ==
    \/ DecomposingHandlerRun(w)
    \/ WorkerAck(w)
    \/ WorkerDecideChildren(w)
    \/ WorkerComplete(w)
    \/ CompleteRetry(w)
    \/ CompleteNotify(w)
    \/ CompleteMarkDead(w)

NextDecomposer ==
    \/ EnqueueOne
    \/ SubmitOne
    \/ ClientNotify
    \/ Tick
    \/ \E w \in Workers : LeaseOps(w)
    \/ \E w \in Workers : DecomposerOps(w)

SpecDecomposer == InitDecomposer /\ [][NextDecomposer]_vars

\* The decider alone: a worker that holds the lease of a task with any
\* attempts and max_attempts, after a handler outcome of Failure or Blocked
\* and a - 1 earlier attempts that ended in complete(Retry).
InitDecider ==
    \E a \in 1..MaxDecideAttempts, m \in 0..MaxDecideAttempts,
       holder \in Workers, outcome \in {"Failure", "Blocked"} :
        /\ jobs = <<>>
        /\ records = <<[TaskRecordNew(1, m) EXCEPT !.state = "Running",
                                                !.attempts = a]>>
        /\ ready = <<>>
        /\ attempts = [i \in 1..(a - 1) |-> AttemptRecordNew(i, 1, "Failure")]
        /\ decisions = [i \in 1..(a - 1) |->
                           DecisionRecordNew(1, i, "retry_policy",
                                             "schedule_retry")]
        /\ scheduled = <<>>
        /\ edges = <<>>
        /\ reverse_edges = <<>>
        /\ next_job_id = 1
        /\ next_task_id = 2
        /\ next_attempt_id = a
        /\ permit = FALSE
        /\ waiters = <<>>
        /\ now = a - 1
        /\ pc = [w \in Workers |-> IF w = holder THEN "w_failed" ELSE "idle"]
        /\ lease = [w \in Workers |-> IF w = holder THEN 1 ELSE NoTask]
        /\ local = [w \in Workers |->
                       IF w = holder THEN [NoLocal EXCEPT !.outcome = outcome]
                       ELSE NoLocal]
        /\ clientpc = "idle"
        /\ fail_first = 0
        /\ remaining_failures = 0
        /\ graph_call = NoCall
        /\ decompose_on_first = FALSE
        /\ shutdown = FALSE
        /\ joinpc = "idle"
        /\ queues = <<>>
        /\ pop_call = [p \in Poppers |-> NoPop]
        /\ job_call = NoJobCall

NextDecider == \E w \in Workers : WorkerDecide(w)

SpecDecider == InitDecider /\ [][NextDecider]_vars

\* One task and the worker group of worker.rs with its shutdown channel:
\* "idle" is the top of worker_loop, the handler succeeds, fails or returns
\* an error.
GroupOps(w) ==
    \/ WorkerLoopTop(w)
    \/ pc[w] # "idle" /\ LeaseStep(w)
    \/ EnterWait(w)
    \/ TimerWake(w)
    \/ ShutdownChanged(w)
    \/ HandlerRun(w)
    \/ HandlerError(w)
    \/ WorkerAck(w)
    \/ WorkerDecide(w)
    \/ WorkerDecideError(w)
    \/ WorkerComplete(w)
    \/ CompleteRetry(w)
    \/ CompleteNotify(w)
    \/ CompleteMarkDead(w)

InitGroup ==
    /\ jobs = <<>>
    /\ records = <<>>
    /\ ready = <<>>
    /\ attempts = <<>>
    /\ decisions = <<>>
    /\ scheduled = <<>>
    /\ edges = <<>>
    /\ reverse_edges = <<>>
    /\ next_job_id = 1
    /\ next_task_id = 1
    /\ next_attempt_id = 1
    /\ permit = FALSE
    /\ waiters = <<>>
    /\ now = 0
    /\ pc = [w \in Workers |-> "idle"]
    /\ lease = [w \in Workers |-> NoTask]
    /\ local = [w \in Workers |-> NoLocal]
    /\ clientpc = "idle"
    /\ fail_first \in 0..MaxGroupFail
    /\ remaining_failures = fail_first
    /\ graph_call = NoCall
    /\ decompose_on_first = FALSE
    /\ shutdown = FALSE
    /\ joinpc = "idle"
    /\ queues = <<>>
    /\ pop_call = [p \in Poppers |-> NoPop]
    /\ job_call = NoJobCall

SubmitGroupJob ==
    /\ next_task_id = 1
    /\ \E b \in 1..MaxGroupBudget : SubmitJob(1, b, NoTime)

NextGroup ==
    \/ SubmitGroupJob
    \/ ClientNotify
    \/ Tick
    \/ RequestShutdown
    \/ ShutdownAndJoin
    \/ JoinReturn
    \/ \E w \in Workers : GroupOps(w)

SpecGroup ==
    /\ InitGroup
    /\ [][NextGroup]_vars
    /\ WF_vars(JoinReturn)
    /\ \A w \in Workers : WF_vars(GroupOps(w))

\* Ad-hoc tasks that are leased and retried: enqueue, lease, ack, fail and
\* complete with Retry of any delay or MarkDead, while the clock advances.
RetryDecisions ==
    {[kind |-> "Retry", delay |-> d, nchild |-> 0] : d \in 0..MaxDelay}
    \cup {[kind |-> "MarkDead", delay |-> 0, nchild |-> 0]}

CompleteWithRetry(w) ==
    /\ pc[w] = "hold"
    /\ \E d \in RetryDecisions : CompleteAttempt(w, "Failure", d)

NextRetry ==
    \/ TasksInUse < MaxRetryTasks /\ Enqueue
    \/ ClientNotify
    \/ Tick
    \/ \E w \in Workers : LeasesIssued < MaxRetryLeases /\ LeaseStep(w)
    \/ \E w \in Workers : EnterWait(w)
    \/ \E w \in Workers : TimerWake(w)
    \/ \E w \in Workers : Ack(w)
    \/ \E w \in Workers : Fail(w)
    \/ \E w \in Workers : CompleteWithRetry(w)
    \/ \E w \in Workers : CompleteRetry(w)
    \/ \E w \in Workers : CompleteNotify(w)
    \/ \E w \in Workers : CompleteMarkDead(w)

SpecRetry == Init /\ [][NextRetry]_vars

\* Up to MaxLiveTasks tasks, enqueued, submitted in a job or inserted with
\* dependencies, and the worker group with the default decider and a
\* FailingHandler; no shutdown, no cancellation, no deadline.
InitLive ==
    /\ jobs = <<>>
    /\ records = <<>>
    /\ ready = <<>>
    /\ attempts = <<>>
    /\ decisions = <<>>
    /\ scheduled = <<>>
    /\ edges = <<>>
    /\ reverse_edges = <<>>
    /\ next_job_id = 1
    /\ next_task_id = 1
    /\ next_attempt_id = 1
    /\ permit = FALSE
    /\ waiters = <<>>
    /\ now = 0
    /\ pc = [w \in Workers |-> "idle"]
    /\ lease = [w \in Workers |-> NoTask]
    /\ local = [w \in Workers |-> NoLocal]
    /\ clientpc = "idle"
    /\ fail_first \in 0..MaxLiveFail
    /\ remaining_failures = fail_first
    /\ graph_call = NoCall
    /\ decompose_on_first = FALSE
    /\ shutdown = FALSE
    /\ joinpc = "idle"
    /\ queues = <<>>
    /\ pop_call = [p \in Poppers |-> NoPop]
    /\ job_call = NoJobCall

NextLive ==
    \/ next_task_id <= MaxLiveTasks /\ Enqueue
    \/ \E n \in 1..MaxLiveTasks, b \in 1..MaxBudget :
          /\ next_job_id = 1
          /\ next_task_id + n <= MaxLiveTasks + 1
          /\ SubmitJob(n, b, NoTime)
    \/ \E deps \in SUBSET (DOMAIN records) :
          next_task_id <= MaxLiveTasks /\ InsertTaskWithDependencies(deps)
    \/ ClientNotify
    \/ Tick
    \/ \E w \in Workers : LeaseOps(w)
    \/ \E w \in Workers : WorkerOps(w)

SpecLive ==
    /\ InitLive
    /\ [][NextLive]_vars
    /\ WF_vars(ClientNotify)
    /\ WF_vars(Tick)
    /\ \A w \in Workers : WF_vars(LeaseOps(w)) /\ WF_vars(WorkerOps(w))

\* A job whose owner keeps JobRecord.state up to date: submit_job, lease,
\* ack, JobRecord::update_state_from_tasks with the states of the job's
\* tasks, and cancel_job.
UpdateStateFromTasks(j) ==
    /\ clientpc = "idle"
    /\ jobs' = [jobs EXCEPT ![j].state =
                   update_state_from_tasks(
                      {records[jobs[j].task_ids[i]].state :
                          i \in DOMAIN jobs[j].task_ids})]
    /\ UNCHANGED <<records, ready, attempts, decisions, scheduled, edges,
                   reverse_edges, next_job_id, next_task_id, next_attempt_id,
                   notif, now, pc, lease, local, clientpc, handler,
                   graph_call, others>>

NextJobRecord ==
    \/ \E n \in 0..MaxTasks, b \in Budgets :
          /\ next_job_id <= MaxJobs
          /\ TasksInUse + n <= MaxTasks
          /\ SubmitJob(n, b, NoTime)
    \/ ClientNotify
    \/ \E w \in Workers : LeasesIssued < MaxLeases /\ LeaseStep(w)
    \/ \E w \in Workers : EnterWait(w)
    \/ \E w \in Workers : Ack(w)
    \/ \E j \in DOMAIN jobs : UpdateStateFromTasks(j)
    \/ \E j \in DOMAIN jobs : CancelJob(j)

SpecJobRecord == Init /\ [][NextJobRecord]_vars

\* The delivery queue alone: up to MaxPushes push calls and one pop call
\* per thread, on two namespaces, while the clock advances.
NextDelivery ==
    \/ \E ns \in Namespaces : Pushed < MaxPushes /\ DeliveryPush(ns)
    \/ \E p \in Poppers, ns \in Namespaces, timeout \in 0..MaxTimeout :
          DeliveryPopCall(p, ns, timeout)
    \/ \E p \in Poppers : DeliveryPopLoop(p)
    \/ \E p \in Poppers : DeliveryPopTimeout(p)
    \/ \E p \in Poppers : DeliveryPopSpurious(p)
    \/ \E p \in Poppers : DeliveryPopTimedOut(p)
    \/ Tick

SpecDelivery == Init /\ [][NextDelivery]_vars

\* ------------------------------------------------------ dropped sender
\* The owner drops the WorkerGroup without a call of request_shutdown: the
\* watch::Sender is dropped with the value false, the JoinHandles are
\* dropped and the worker tasks keep running detached.
DropSender ==
    /\ joinpc = "idle"
    /\ ~shutdown
    /\ joinpc' = "dropped"
    /\ UNCHANGED <<store, notif, now, pc, lease, local, clientpc, handler,
                   graph_call, decompose_on_first, shutdown, delivery,
                   job_call>>

\* The branch shutdown_rx.changed() of the select! once the sender is gone:
\* changed() returns Err at once, the pattern `_` accepts it, the lease()
\* future is dropped where it stands and the loop continues at its top.
SenderClosed(w) ==
    /\ joinpc = "dropped"
    /\ pc[w] \in {"select", "lease", "wait_enter", "waiting"}
    /\ LET left == SelectSeq(waiters, LAMBDA x : x # w)
       IN \/ /\ waiters' = left
             /\ permit' = permit
             /\ pc' = [pc EXCEPT ![w] = "idle"]
          \/ /\ pc[w] = "lease"
             /\ waiters' = IF left # <<>> THEN Tail(left) ELSE left
             /\ permit' = IF left # <<>> THEN permit ELSE TRUE
             /\ pc' = [(IF left # <<>> THEN [pc EXCEPT ![Head(left)] = "lease"]
                        ELSE pc) EXCEPT ![w] = "idle"]
    /\ local' = [local EXCEPT ![w] = NoLocal]
    /\ UNCHANGED <<store, now, lease, clientpc, handler, graph_call, others>>

DropOps(w) ==
    \/ WorkerLoopTop(w)
    \/ pc[w] # "idle" /\ LeaseStep(w)
    \/ EnterWait(w)
    \/ TimerWake(w)
    \/ SenderClosed(w)
    \/ HandlerRun(w)
    \/ WorkerAck(w)
    \/ WorkerDecide(w)
    \/ WorkerComplete(w)
    \/ CompleteRetry(w)
    \/ CompleteNotify(w)
    \/ CompleteMarkDead(w)

NextDrop ==
    \/ SubmitGroupJob
    \/ ClientNotify
    \/ Tick
    \/ DropSender
    \/ \E w \in Workers : DropOps(w)

SpecDrop ==
    /\ InitGroup
    /\ [][NextDrop]_vars
    /\ \A w \in Workers : WF_vars(DropOps(w))

\* ------------------------------------------------------ job state from task states
\* The TaskState enum of queue/state.rs
TaskStates ==
    {"Queued", "Running", "Succeeded", "RetryScheduled", "Dead", "Decomposed"}

\* the lists of task states a caller passes to update_state_from_tasks
RECURSIVE TaskStateLists(_)
TaskStateLists(n) ==
    IF n = 0 THEN {<<>>}
    ELSE LET shorter == TaskStateLists(n - 1)
         IN shorter \cup {Append(l, st) : l \in shorter, st \in TaskStates}

\* job.update_state_from_tasks(&task_states), as the tests of job.rs call it
UpdateStateCall(j, task_states) ==
    /\ jobs' = [jobs EXCEPT ![j].state =
                   update_state_from_tasks(
                      {task_states[i] : i \in DOMAIN task_states})]
    /\ job_call' = [job |-> j, task_states |-> task_states]
    /\ UNCHANGED <<records, ready, attempts, decisions, scheduled, edges,
                   reverse_edges, next_job_id, next_task_id, next_attempt_id,
                   notif, now, pc, lease, local, clientpc, handler,
                   graph_call, decompose_on_first, group, delivery>>

NextJobState ==
    \/ \E b \in Budgets :
          /\ next_job_id <= MaxJobs
          /\ SubmitJob(0, b, NoTime)
    \/ ClientNotify
    \/ \E j \in DOMAIN jobs, task_states \in TaskStateLists(MaxTaskStates) :
          UpdateStateCall(j, task_states)

SpecJobState == Init /\ [][NextJobState]_vars

\* ------------------------------------------------------ fail() and complete()
\* Two tasks with the same history, both Running after `a` attempts and
\* leased at the same instant: the holder of task 1 calls fail(error), the
\* holder of task 2 asks the DefaultDecider (configured with the queue's
\* RetryPolicy, as everywhere in the repository) and calls
\* complete(Outcome::failure(error), decision).
InitCompat ==
    \E a \in 1..MaxDecideAttempts, m \in 0..MaxDecideAttempts :
        /\ jobs = <<>>
        /\ records = [t \in 1..2 |->
                         [TaskRecordNew(t, m) EXCEPT !.state = "Running",
                                                     !.attempts = a]]
        /\ ready = <<>>
        /\ attempts = [i \in 1..(2 * (a - 1)) |->
                          AttemptRecordNew(i, 2 - (i % 2), "Failure")]
        /\ decisions = [i \in 1..(2 * (a - 1)) |->
                           DecisionRecordNew(2 - (i % 2), i, "retry_policy",
                                             "schedule_retry")]
        /\ scheduled = <<>>
        /\ edges = <<>>
        /\ reverse_edges = <<>>
        /\ next_job_id = 1
        /\ next_task_id = 3
        /\ next_attempt_id = 2 * (a - 1) + 1
        /\ permit = FALSE
        /\ waiters = <<>>
        /\ now = a - 1
        /\ pc = [w \in Workers |-> CASE w = 1 -> "hold"
                                     [] w = 2 -> "w_failed"
                                     [] OTHER -> "idle"]
        /\ lease = [w \in Workers |-> IF w <= 2 THEN w ELSE NoTask]
        /\ local = [w \in Workers |->
                       IF w = 2 THEN [NoLocal EXCEPT !.outcome = "Failure"]
                       ELSE NoLocal]
        /\ clientpc = "idle"
        /\ fail_first = 0
        /\ remaining_failures = 0
        /\ graph_call = NoCall
        /\ decompose_on_first = FALSE
        /\ shutdown = FALSE
        /\ joinpc = "idle"
        /\ queues = <<>>
        /\ pop_call = [p \in Poppers |-> NoPop]
        /\ job_call = NoJobCall

NextCompat ==
    \/ \E w \in Workers : Fail(w)
    \/ \E w \in Workers : WorkerDecide(w)
    \/ \E w \in Workers : WorkerComplete(w)
    \/ \E w \in Workers : CompleteRetry(w)
    \/ \E w \in Workers : CompleteMarkDead(w)
    \/ \E w \in Workers : CompleteNotify(w)

SpecCompat == InitCompat /\ [][NextCompat]_vars

\* ------------------------------------------------------ envelopes
\* Tasks created by enqueue (with an envelope of the caller's choice), by
\* submit_job and by decomposition, leased, acknowledged and decomposed.
NextEnvelope ==
    \/ \E envelope \in 1..MaxEnvelopeId :
          TasksInUse < MaxFamily /\ EnqueueEnvelope(envelope)
    \/ SubmitJobSpec
    \/ ClientNotify
    \/ \E w \in Workers : LeasesIssued < MaxJobLeases /\ LeaseStep(w)
    \/ \E w \in Workers : EnterWait(w)
    \/ \E w \in Workers : Ack(w)
    \/ \E w \in Workers : CompleteWithDecompose(w)
    \/ \E w \in Workers : AddChildTasksAllocate(w)
    \/ \E w \in Workers : AddChildTasksInsert(w)
    \/ \E w \in Workers : AddChildTasksNotify(w)
    \/ \E w \in Workers : CompleteDecompose(w)

SpecEnvelope == Init /\ [][NextEnvelope]_vars

\* ------------------------------------------------------ wake-ups
\* Workers that call lease() and keep the lease they get (no handler
\* returns), while a client adds up to one task per worker by enqueue and
\* by submit_job.
\* lease() without scheduled retries: no sleep_until is armed
WakeOps(w) ==
    \/ LeaseStep(w)
    \/ EnterWait(w)

NextWake ==
    \/ TasksInUse < NumWorkers /\ Enqueue
    \/ \E n \in 1..NumWorkers, b \in 1..MaxBudget :
          /\ next_job_id <= MaxJobs
          /\ TasksInUse + n <= NumWorkers
          /\ SubmitJob(n, b, NoTime)
    \/ ClientNotify
    \/ \E w \in Workers : WakeOps(w)

SpecWake ==
    /\ Init
    /\ [][NextWake]_vars
    /\ WF_vars(ClientNotify)
    /\ \A w \in Workers : WF_vars(WakeOps(w))

\* ------------------------------------------------------ properties
Holders(t) == {w \in Workers : lease[w] = t}

Count(sq, t) == Cardinality({i \in DOMAIN sq : sq[i] = t})

AttemptRecordsOf(t) == {a \in DOMAIN attempts : attempts[a].task_id = t}

DecisionsOf(t, name) ==
    {i \in DOMAIN decisions :
        decisions[i].task_id = t /\ decisions[i].decision = name}

HeapEntriesOf(t) == {i \in DOMAIN scheduled : scheduled[i].task_id = t}

\* C1: a Running task has exactly one outstanding lease, and every
\* outstanding lease refers to a Running task.
C1_RunningHasOneLease ==
    /\ \A t \in DOMAIN records :
          records[t].state = "Running" => Cardinality(Holders(t)) = 1
    /\ \A w \in Workers :
          lease[w] # NoTask =>
             lease[w] \in DOMAIN records /\ records[lease[w]].state = "Running"

\* C2: no two outstanding leases refer to the same task, and a lease of a
\* task is issued only when no lease of it is outstanding and the task is
\* Queued, or RetryScheduled and promoted by the issuing call.
C2_LeaseIssue(w) ==
    (lease'[w] # NoTask /\ lease[w] = NoTask) =>
        LET t == lease'[w]
        IN /\ Holders(t) = {}
           /\ records[t].state \in {"Queued", "RetryScheduled"}
           /\ records[t].state = "RetryScheduled" => HeapEntriesOf(t) # {}
           /\ records'[t].attempts = records[t].attempts + 1

C2_OneLeasePerTask ==
    /\ [](\A w1, w2 \in Workers :
            (w1 # w2 /\ lease[w1] # NoTask) => lease[w1] # lease[w2])
    /\ [][\A w \in Workers : C2_LeaseIssue(w)]_vars

C2_Witness ==
    \E w1, w2 \in Workers :
        /\ w1 # w2 /\ lease[w1] # NoTask /\ lease[w2] # NoTask
        /\ lease[w1] # lease[w2]
        /\ records[lease[w1]].state = "Running"
        /\ records[lease[w2]].state = "Running"

\* C3: every task record satisfies attempts <= max_attempts.
C3_AttemptsBounded ==
    \A t \in DOMAIN records : records[t].attempts <= records[t].max_attempts

\* C4: once a task is Succeeded, Dead or Decomposed, no step changes its
\* state or its attempts count.
C4_TerminalAbsorbing ==
    [][\A t \in DOMAIN records :
          is_terminal(records[t].state) =>
             /\ records'[t].state = records[t].state
             /\ records'[t].attempts = records[t].attempts]_vars

C4_Witness ==
    \E t1, t2 \in DOMAIN records :
        /\ t1 # t2
        /\ is_terminal(records[t1].state)
        /\ \E a1 \in AttemptRecordsOf(t1), a2 \in AttemptRecordsOf(t2) : a1 < a2

\* C5: no state of the store shows the AttemptRecord of a complete call
\* without the call's state change: while a task is Running, the record of
\* its current attempt is not stored yet.
C5_CompleteAtomic ==
    \A t \in DOMAIN records :
        records[t].state = "Running" =>
            Cardinality(AttemptRecordsOf(t)) < records[t].attempts

\* C6: every Queued task without unresolved dependencies has exactly one
\* entry in the ready FIFO.
C6_QueuedInReady ==
    \A t \in DOMAIN records :
        (records[t].state = "Queued" /\ ~record_has_dependencies(records[t]))
            => Count(ready, t) = 1

\* C7: a RetryScheduled task has next_run_at set and exactly one heap entry,
\* whose time is that next_run_at; every heap entry is of a RetryScheduled task.
C7_RetryScheduledInHeap ==
    /\ \A t \in DOMAIN records :
          records[t].state = "RetryScheduled" =>
             /\ records[t].next_run_at # NoTime
             /\ Cardinality(HeapEntriesOf(t)) = 1
             /\ \A i \in HeapEntriesOf(t) :
                   scheduled[i].next_run_at = records[t].next_run_at
    /\ \A i \in DOMAIN scheduled :
          /\ scheduled[i].task_id \in DOMAIN records
          /\ records[scheduled[i].task_id].state = "RetryScheduled"

C7_Witness ==
    \E t \in DOMAIN records :
        records[t].state = "RetryScheduled" /\ records[t].attempts = 2

\* C8: a call of ack or complete adds exactly one AttemptRecord, with the
\* task id of the lease; stored records are never changed or removed, and
\* the records change only in a step of a caller that holds a lease.
C8_Step ==
    /\ \A a \in DOMAIN attempts :
          a \in DOMAIN attempts' /\ attempts'[a] = attempts[a]
    /\ \A w \in Workers :
          (pc[w] = "hold" /\ pc'[w] # "hold") =>
             /\ Cardinality(DOMAIN attempts') = Cardinality(DOMAIN attempts) + 1
             /\ \A a \in DOMAIN attempts' \ DOMAIN attempts :
                   attempts'[a].task_id = lease[w]
    /\ (\A w \in Workers : ~(pc[w] = "hold" /\ pc'[w] # "hold"))
          => attempts' = attempts

C8_AttemptsGrowByOne == [][C8_Step]_vars

C8_Witness ==
    /\ Cardinality(DOMAIN attempts) = 2
    /\ \E w \in Workers : pc[w] \in {"c_retry", "c_dead", "c_child1"}

\* ------------------------------------------------------ worker scenarios
TheTask == 1

Submitted == TheTask \in DOMAIN records

TaskIs(st) == Submitted /\ records[TheTask].state = st

AlwaysFails == Submitted /\ fail_first >= records[TheTask].max_attempts

FailsThenSucceeds == Submitted /\ fail_first < records[TheTask].max_attempts

\* C9: with a handler that fails on each of the N = max_attempts invocations,
\* the task eventually is Dead and stays Dead, with attempts = N, N
\* AttemptRecords, and N-1 decisions schedule_retry followed by one mark_dead.
C9_DeadState ==
    (Submitted /\ records[TheTask].state = "Dead") =>
        LET N == records[TheTask].max_attempts
        IN /\ fail_first >= N
           /\ records[TheTask].attempts = N
           /\ Cardinality(AttemptRecordsOf(TheTask)) = N
           /\ \A a \in AttemptRecordsOf(TheTask) : attempts[a].outcome = "Failure"
           /\ Len(decisions) = N
           /\ \A i \in 1..(N - 1) : decisions[i].decision = "schedule_retry"
           /\ decisions[N].decision = "mark_dead"
           /\ \A i \in 1..N : decisions[i].task_id = TheTask

C9_Exhaustion ==
    /\ [](AlwaysFails => <>TaskIs("Dead"))
    /\ []C9_DeadState
    /\ [][TaskIs("Dead") => TaskIs("Dead")']_vars

C9_Witness ==
    /\ Submitted
    /\ records[TheTask].state = "Dead"
    /\ records[TheTask].attempts = EnqueueMaxAttempts
    /\ Len(decisions) = EnqueueMaxAttempts

\* C10: with a handler that fails k < max_attempts times and then succeeds,
\* the task eventually is Succeeded with attempts = k+1, k+1 AttemptRecords
\* and exactly k decisions, all schedule_retry; it is never Dead.
C10_SucceededState ==
    (Submitted /\ records[TheTask].state = "Succeeded") =>
        /\ fail_first < records[TheTask].max_attempts
        /\ records[TheTask].attempts = fail_first + 1
        /\ Cardinality(AttemptRecordsOf(TheTask)) = fail_first + 1
        /\ Cardinality(DecisionsOf(TheTask, "schedule_retry")) = fail_first
        /\ Len(decisions) = fail_first

C10_RetryThenSuccess ==
    /\ [](FailsThenSucceeds => <>TaskIs("Succeeded"))
    /\ []C10_SucceededState
    /\ [](FailsThenSucceeds => ~TaskIs("Dead"))

C10_Witness ==
    /\ Submitted
    /\ records[TheTask].state = "Succeeded"
    /\ fail_first = 2
    /\ Cardinality(AttemptRecordsOf(TheTask)) = 3

\* ------------------------------------------------------ decomposition
\* The child record add_child_tasks builds for a parent record.
ChildOf(child_id, parent_id, parent) ==
    new_child(child_id, parent.max_attempts, parent.job_id, parent_id)

\* add_child_tasks of caller w inserts its records in this step
InsertsChildren(w) == pc[w] = "c_child3" /\ pc'[w] = "c_child_notify"

\* complete(Decompose) of caller w returns in this step
ReturnsDecomposed(w) == pc[w] = "c_decomp" /\ pc'[w] = "idle"

C11_Insert(w) ==
    InsertsChildren(w) =>
        LET ids == local[w].child_ids
            p == lease[w]
        IN /\ Len(ids) = local[w].nchild
           /\ \A i \in DOMAIN ids : ids[i] \notin DOMAIN records
           /\ \A i, j \in DOMAIN ids : i < j => ids[i] < ids[j]
           /\ DOMAIN records' = DOMAIN records \cup {ids[i] : i \in DOMAIN ids}
           /\ \A i \in DOMAIN ids :
                 /\ records'[ids[i]] = ChildOf(ids[i], p, records[p])
                 /\ records'[ids[i]].state = "Queued"
                 /\ records'[ids[i]].attempts = 0
                 /\ records'[ids[i]].max_attempts = records[p].max_attempts
                 /\ records'[ids[i]].job_id = records[p].job_id
                 /\ records'[ids[i]].parent_task_id = p
           /\ ready' = ready \o ids
           /\ records'[p].child_task_ids = ids
           /\ records[p].job_id # NoJob

C11_Return(w) ==
    ReturnsDecomposed(w) =>
        LET ids == local[w].child_ids
            p == lease[w]
        IN /\ records[p].state = "Running"
           /\ records'[p].state = "Decomposed"
           /\ records'[p].child_task_ids = ids
           /\ Len(ids) = local[w].nchild
           /\ \A i \in DOMAIN ids :
                 /\ ids[i] \in DOMAIN records'
                 /\ records'[ids[i]].parent_task_id = p
                 /\ records'[ids[i]].job_id = records[p].job_id

\* C11: complete with Decompose on a Running task of a job creates one new
\* record per child spec, in spec order, each Queued with attempts 0, the
\* parent's max_attempts and job id and parent_task_id = the parent, appends
\* the child ids to the ready FIFO, and leaves the parent Decomposed with
\* child_task_ids equal to the allocated ids.
C11_DecomposeCreatesChildren ==
    [][\A w \in Workers : C11_Insert(w) /\ C11_Return(w)]_vars

C11_Witness ==
    \E p \in DOMAIN records :
        /\ records[p].state = "Decomposed"
        /\ Len(records[p].child_task_ids) = 2
        /\ \A i \in 1..2 : records[p].child_task_ids[i] \in DOMAIN records
        /\ \E c \in DOMAIN records :
              records[c].parent_task_id = p /\ records[c].state = "Succeeded"

\* ------------------------------------------------------ cycles
\* Pairs reachable by paths of the relation E of length up to 2^k
RECURSIVE Closure(_, _)
Closure(E, k) ==
    IF k = 0 THEN E
    ELSE LET C == Closure(E, k - 1)
         IN C \cup {<<xy[1][1], xy[2][2]>> :
                        xy \in {pr \in C \X C : pr[1][2] = pr[2][1]}}

HasCycle(E) == \E x \in Closure(E, Cardinality(E)) : x[1] = x[2]

\* C13: a submit_job whose declared dependencies contain a cycle creates no
\* task record, no ready entry and no dependency edge.
C13_CyclicJobRejected ==
    [][\A n \in 1..MaxJobSpecTasks, b \in 1..MaxBudget,
         hint \in Hints(MaxJobSpecTasks) :
           (HasCycle(hint) /\ SubmitJobWithHint(n, b, NoTime, hint)) =>
              /\ records' = records
              /\ ready' = ready
              /\ edges' = edges
              /\ reverse_edges' = reverse_edges]_vars

\* ------------------------------------------------------ dependency gating
\* caller w acks the task `done` in this step
Acks(w, done) ==
    /\ pc[w] = "hold" /\ lease[w] = done /\ lease'[w] = NoTask
    /\ records'[done].state = "Succeeded"

C12_Blocked ==
    \A t \in DOMAIN records :
        /\ Count(ready, t) <= 1
        /\ record_has_dependencies(records[t]) =>
              /\ Count(ready, t) = 0
              /\ Holders(t) = {}
              /\ records[t].state = "Queued"
              /\ records[t].attempts = 0

C12_Release ==
    \A t \in DOMAIN records :
        /\ records'[t].depends_on # records[t].depends_on =>
              \E w \in Workers, done \in records[t].depends_on :
                 /\ Acks(w, done)
                 /\ records'[t].depends_on = records[t].depends_on \ {done}
        /\ (record_has_dependencies(records[t])
               /\ ~record_has_dependencies(records'[t])) =>
              Count(ready', t) = 1
        /\ (record_has_dependencies(records[t]) /\ Count(ready', t) > 0) =>
              ~record_has_dependencies(records'[t])

\* C12: a task with an unresolved dependency is never in the ready FIFO and
\* never leased; it is pushed to the ready FIFO exactly once, by the ack that
\* removes its last remaining dependency while it is Queued.
C12_DependencyGating == []C12_Blocked /\ [][C12_Release]_vars

\* C waited for A and B, both are acked, and C is the next ready task
C12_Witness ==
    /\ records[TaskA].state = "Succeeded"
    /\ records[TaskB].state = "Succeeded"
    /\ ~record_has_dependencies(records[TaskC])
    /\ ready = <<TaskC>>
    /\ TaskC \notin DOMAIN edges
    /\ records[TaskB].attempts = 2

\* ------------------------------------------------------ dependency graph
\* the edges of the graph as pairs <<task, dependency>>
EdgePairs == {ab \in (DOMAIN edges) \X (DOMAIN reverse_edges) :
                 ab[2] \in edges[ab[1]]}

Detected == graph_call.op = "detect_cycle"

\* C14: detect_cycle() is None for every graph without a cycle.
C14_NoneOnDag ==
    (Detected /\ ~HasCycle(EdgePairs)) => graph_call.result = <<>>

IsCyclePath(path) ==
    /\ Len(path) >= 2
    /\ path[1] = path[Len(path)]
    /\ \A i \in 1..Len(path) - 1 : <<path[i], path[i + 1]>> \in EdgePairs

\* C15: for every graph with a cycle, detect_cycle() returns a path whose
\* first and last elements coincide and whose consecutive pairs are edges.
C15_CyclePathOnCycle ==
    (Detected /\ HasCycle(EdgePairs)) => IsCyclePath(graph_call.result)

\* C16: after any sequence of add_dependency and remove_dependency calls the
\* two edge maps are symmetric and hold no empty set.
C16_EdgesSymmetric ==
    /\ \A a \in DOMAIN edges :
          /\ edges[a] # {}
          /\ \A b \in edges[a] :
                b \in DOMAIN reverse_edges /\ a \in reverse_edges[b]
    /\ \A b \in DOMAIN reverse_edges :
          /\ reverse_edges[b] # {}
          /\ \A a \in reverse_edges[b] :
                a \in DOMAIN edges /\ b \in edges[a]

\* a removal has deleted the entry of its task while other edges remain
C16_Witness ==
    /\ graph_call.op = "remove_dependency"
    /\ graph_call.task \notin DOMAIN edges
    /\ graph_call.depends_on \in DOMAIN reverse_edges
    /\ Cardinality(EdgePairs) >= 2

\* ------------------------------------------------------ jobs
LeaseIssued(w) == lease[w] = NoTask /\ lease'[w] # NoTask

Stopped(j) == jobs[j].state \in {"Cancelled", "Stuck"}

JobOf(t) == records[t].job_id

C17_Step ==
    /\ \A j \in DOMAIN jobs : Stopped(j) => jobs'[j].state \in {"Cancelled", "Stuck"}
    /\ \A w \in Workers :
          /\ LeaseIssued(w) =>
                (JobOf(lease'[w]) # NoJob => jobs[JobOf(lease'[w])].state = "Running")
          /\ (lease[w] # NoTask /\ JobOf(lease[w]) # NoJob
                 /\ jobs[JobOf(lease[w])].state = "Cancelled") =>
                /\ Ack(w) => records'[lease[w]].state = "Succeeded"
                /\ CompleteRetry(w) => records'[lease[w]].state = "RetryScheduled"
                /\ CompleteMarkDead(w) => records'[lease[w]].state = "Dead"
                /\ CompleteDecompose(w) => records'[lease[w]].state = "Decomposed"
                /\ pc[w] = "hold" => ENABLED Ack(w)

\* C17: once a job is cancelled no lease is issued for any of its tasks
\* (a cancelled job stays Cancelled, or Stuck when its deadline has passed,
\* and a lease is issued only for tasks of Running jobs), while a lease
\* outstanding at cancel time acks and completes with its normal effect.
C17_CancelledNeverLeased == [][C17_Step]_vars

\* a task of a cancelled job without deadline was retried, promoted and then
\* skipped by lease(); another task of the job was acked after the cancel
C17_Witness ==
    \E j \in DOMAIN jobs : \E t \in DOMAIN records :
        /\ jobs[j].state = "Cancelled" /\ jobs[j].deadline_at = NoTime
        /\ JobOf(t) = j
        /\ records[t].state = "Queued" /\ records[t].attempts = 1
        /\ Count(ready, t) = 0 /\ Holders(t) = {}

DeadlinePassed(j) == jobs[j].deadline_at # NoTime /\ now >= jobs[j].deadline_at

C18_Step ==
    \A w \in Workers :
        /\ LeaseIssued(w) =>
              (JobOf(lease'[w]) # NoJob => ~DeadlinePassed(JobOf(lease'[w])))
        /\ LeaseStep(w) =>
              \A t \in DOMAIN records :
                 (JobOf(t) # NoJob /\ DeadlinePassed(JobOf(t))
                     /\ Count(ready', t) < Count(ready, t)) =>
                    /\ jobs'[JobOf(t)].state = "Stuck"
                    /\ lease'[w] = NoTask
                    /\ records'[t].state = "Queued"
                    /\ records'[t].attempts = records[t].attempts
                    /\ pc'[w] = "lease"

\* C18: when lease() pops a task of a job whose deadline has elapsed, the job
\* becomes Stuck, the task is not leased (it stays Queued with the same
\* attempts) and lease() goes on; no task of a job is leased at or after the
\* job's deadline.
C18_DeadlineSkips == [][C18_Step]_vars

C18_Witness ==
    \E j \in DOMAIN jobs : \E t \in DOMAIN records : \E w \in Workers :
        /\ jobs[j].state = "Stuck" /\ DeadlinePassed(j)
        /\ JobOf(t) = j
        /\ records[t].state = "Queued" /\ records[t].attempts = 0
        /\ Count(ready, t) = 0
        /\ pc[w] = "lease"

\* C19: the state of a job that is neither cancelled nor stuck is the
\* aggregate of the states of its tasks.
C19_JobStateIsAggregate ==
    \A j \in DOMAIN jobs :
        ~Stopped(j) =>
            get_status(j).state =
               update_state_from_tasks(
                  {records[jobs[j].task_ids[i]].state : i \in DOMAIN jobs[j].task_ids})

\* C20: get_result(J) holds exactly the attempts and decisions of the tasks
\* whose owning job is J, children of decomposed tasks included.
C20_ResultHasAllRecords ==
    \A j \in DOMAIN jobs :
        /\ get_result(j).attempts =
              {a \in DOMAIN attempts :
                  attempts[a].task_id \in DOMAIN records
                  /\ JobOf(attempts[a].task_id) = j}
        /\ get_result(j).decisions =
              {i \in DOMAIN decisions :
                  decisions[i].task_id \in DOMAIN records
                  /\ JobOf(decisions[i].task_id) = j}

\* ------------------------------------------------------ default decider
\* C21: when the handler returned Success with proposed child tasks, the
\* decision the worker passes to complete is Decompose.
C21_ProposalDecomposes ==
    \A w \in Workers :
        (pc[w] = "w_decided" /\ local[w].outcome = "Success"
                            /\ local[w].child_tasks > 0)
            => local[w].decision = "Decompose"

\* C22: for an outcome without proposed children the decision is MarkDead
\* exactly when attempts >= max_attempts and Retry otherwise, and deciding
\* changes neither the task record nor anything else of the store.
C22_DecideByAttempts ==
    [][\A w \in Workers :
         (pc[w] = "w_failed" /\ pc'[w] = "w_decided"
                              /\ local[w].child_tasks = 0) =>
            /\ local'[w].decision =
                  IF records[lease[w]].attempts >= records[lease[w]].max_attempts
                  THEN "MarkDead" ELSE "Retry"
            /\ store' = store]_vars

C22_Witness ==
    \E w \in Workers :
        /\ pc[w] = "w_decided"
        /\ local[w].decision = "MarkDead"
        /\ records[lease[w]].attempts > records[lease[w]].max_attempts

\* ------------------------------------------------------ shutdown
\* a worker leaves worker_loop in this step
Exits(w) == pc[w] # "exited" /\ pc'[w] = "exited"

\* C23: a worker exits only at the top of its loop, after shutdown was
\* requested and holding no lease; a lease is given up only by an ack or a
\* complete that recorded its attempt; and shutdown_and_join returns.
C23_ExitStep ==
    \A w \in Workers :
        /\ Exits(w) => (pc[w] = "idle" /\ shutdown /\ lease[w] = NoTask)
        /\ (lease[w] # NoTask /\ lease'[w] = NoTask) =>
              \E a \in DOMAIN attempts' : attempts'[a].task_id = lease[w]
        /\ pc[w] = "exited" => pc'[w] = "exited"

C23_DrainAndTerminate ==
    /\ [][C23_ExitStep]_vars
    /\ [](\A w \in Workers : pc[w] = "exited" => lease[w] = NoTask)
    /\ (joinpc = "joining") ~> (joinpc = "joined")

C23_Witness ==
    /\ joinpc = "joined"
    /\ \A w \in Workers : pc[w] = "exited"
    /\ attempts # <<>>

\* ------------------------------------------------------ handler errors
\* C24: after runtime.execute returned an error the worker stays in its loop
\* and decides on a Failure outcome; complete writes exactly one
\* AttemptRecord of that outcome for the lease and leaves the task
\* RetryScheduled or Dead; and the worker comes back to the top of its loop.
C24_ErrorStep ==
    \A w \in Workers :
        /\ (pc[w] = "w_error" /\ pc'[w] # "w_error") =>
              /\ pc'[w] = "w_decided"
              /\ lease'[w] = lease[w]
              /\ local'[w].outcome = "Failure"
              /\ local'[w].decision \in {"Retry", "MarkDead"}
        /\ (pc[w] = "w_decided" /\ pc'[w] # "w_decided") =>
              /\ DOMAIN attempts' = DOMAIN attempts \cup {next_attempt_id}
              /\ next_attempt_id \notin DOMAIN attempts
              /\ attempts'[next_attempt_id].task_id = lease[w]
              /\ attempts'[next_attempt_id].outcome = local[w].outcome
              /\ pc'[w] = IF local[w].decision = "Retry" THEN "c_retry"
                          ELSE "c_dead"
        /\ (pc[w] \in {"c_retry", "c_dead"} /\ pc'[w] # pc[w]) =>
              /\ lease'[w] = NoTask
              /\ records'[lease[w]].state =
                    IF pc[w] = "c_retry" THEN "RetryScheduled" ELSE "Dead"

C24_HandlerErrorsContained ==
    /\ [][C24_ErrorStep]_vars
    /\ \A w \in Workers :
          (pc[w] = "w_error") ~> (pc[w] = "idle" /\ lease[w] = NoTask)

C24_Witness ==
    /\ fail_first = 0
    /\ \E a \in DOMAIN attempts : attempts[a].outcome = "Failure"
    /\ 1 \in DOMAIN records /\ records[1].state = "RetryScheduled"
    /\ \A w \in Workers : pc[w] \notin {"exited", "w_error", "w_decided"}
    /\ \A w \in Workers : lease[w] = NoTask

\* ------------------------------------------------------ promotion
\* position of task t in the order in which this step hands tasks out: the
\* task leased in the step first, then the ready FIFO
Handed(w) == IF lease[w] = NoTask /\ lease'[w] # NoTask THEN <<lease'[w]>> ELSE <<>>

Before(sq, x, y) ==
    \E i, j \in DOMAIN sq : i < j /\ sq[i] = x /\ sq[j] = y

Promoted(t) == records[t].state = "RetryScheduled"
               /\ records'[t].state # "RetryScheduled"

\* C25: a task leaves RetryScheduled only when its next_run_at has passed,
\* and then it is Queued or leased; a step that takes entries from the heap
\* takes every due entry and no future one; tasks promoted in one step are
\* handed out in the order of their times.
C25_Step ==
    /\ \A t \in DOMAIN records :
          Promoted(t) =>
             /\ records[t].next_run_at # NoTime
             /\ records[t].next_run_at <= now
             /\ records'[t].state \in {"Queued", "Running"}
    /\ Len(scheduled') < Len(scheduled) =>
          /\ \A i \in DOMAIN scheduled' : scheduled'[i].next_run_at > now
          /\ Len(scheduled') =
                Cardinality({i \in DOMAIN scheduled :
                                scheduled[i].next_run_at > now})
    /\ \A x, y \in DOMAIN records :
          (Promoted(x) /\ Promoted(y)
              /\ records[x].next_run_at < records[y].next_run_at) =>
             \E w \in Workers : Before(Handed(w) \o ready', x, y)

C25_NotBeforeNextRunAt == [][C25_Step]_vars

C25_Witness ==
    \E x, y \in DOMAIN records :
        /\ records[x].state = "Queued"
        /\ records[x].attempts >= 1
        /\ Count(ready, x) = 1
        /\ records[y].state = "RetryScheduled"
        /\ records[y].next_run_at > now
        /\ \E i \in DOMAIN scheduled : scheduled[i].task_id = y

\* ------------------------------------------------------ liveness of lease
\* task t waits in the ready FIFO or in the heap
AwaitsLease(t) ==
    /\ t \in DOMAIN records
    /\ records[t].state # "Running"
    /\ \/ Count(ready, t) > 0
       \/ records[t].state = "RetryScheduled" /\ HeapEntriesOf(t) # {}

\* C26: a task that waits in the ready FIFO, or in the heap as
\* RetryScheduled, is eventually leased.
C26_EventuallyLeased ==
    \A t \in 1..MaxLiveTasks :
        AwaitsLease(t) ~> (t \in DOMAIN records /\ records[t].state = "Running")

C26_Witness ==
    /\ \A w \in Workers : pc[w] = "waiting"
    /\ clientpc = "notify"
    /\ ready # <<>>

\* ------------------------------------------------------ FIFO order
\* C27: every step keeps the entries of the ready FIFO in their order, takes
\* at most one entry from its front and adds new entries at its back; a
\* lease returns the front entry, or the first promoted task when the FIFO
\* was empty.
C27_Step ==
    /\ \E k \in 0..1 :
          /\ Len(ready') >= Len(ready) - k
          /\ k <= Len(ready)
          /\ \A i \in 1..(Len(ready) - k) : ready'[i] = ready[i + k]
    /\ \A w \in Workers :
          (lease[w] = NoTask /\ lease'[w] # NoTask) =>
             IF ready # <<>>
             THEN lease'[w] = Head(ready)
             ELSE /\ records[lease'[w]].state = "RetryScheduled"
                  /\ \A i \in DOMAIN ready' : ready'[i] # lease'[w]

C29_Step ==
    /\ \A p \in Poppers :
          (pop_call[p].returned = "no" /\ pop_call'[p].returned = "None") =>
             QueueOf(queues', pop_call[p].ns) = <<>>
    /\ \A ns \in Namespaces :
          (Len(QueueOf(queues', ns)) > Len(QueueOf(queues, ns))
              /\ \E p \in CvWaiting : pop_call[p].ns = ns) =>
             \E p \in CvWaiting :
                 pop_call[p].ns = ns /\ pop_call'[p].at = "woken"

C29_PopNoneOnlyWhenEmpty == [][C29_Step]_vars

\* ------------------------------------------------------ decision records
\* the last step of a complete call of caller w
CompleteEnds(w) ==
    /\ pc[w] \in {"c_retry", "c_dead", "c_child1", "c_decomp"}
    /\ lease[w] # NoTask /\ lease'[w] = NoTask

DecisionNames(p) ==
    CASE p = "c_retry" -> <<"retry_policy", "schedule_retry">>
      [] p = "c_dead" -> <<"retry_policy", "mark_dead">>
      [] OTHER -> <<"decomposition", "decompose">>

\* C30: a complete call appends exactly one DecisionRecord, for the task of
\* the lease and named after the decision; an ack appends none; and a
\* DecisionRecord is appended by a complete call only.
C30_Step ==
    /\ \A w \in Workers :
          CompleteEnds(w) =>
             /\ Len(decisions') = Len(decisions) + 1
             /\ decisions'[Len(decisions')].task_id = lease[w]
             /\ <<decisions'[Len(decisions')].policy,
                  decisions'[Len(decisions')].decision>> = DecisionNames(pc[w])
    /\ \A w \in Workers :
          (pc[w] = "hold" /\ lease'[w] = NoTask
              /\ lease[w] \in DOMAIN records'
              /\ records'[lease[w]].state = "Succeeded") =>
             decisions' = decisions
    /\ decisions' # decisions => \E w \in Workers : CompleteEnds(w)

C30_OneDecisionPerComplete == [][C30_Step]_vars

\* ------------------------------------------------------ children and parent
\* C31: whenever a child created by complete(Decompose) is in the ready FIFO
\* or is Running, its parent is already Decomposed and the parent's
\* decompose DecisionRecord is present.
C31_ChildrenAfterDecomposed ==
    \A t \in DOMAIN records :
        (/\ records[t].parent_task_id # NoTask
         /\ \/ \E i \in DOMAIN ready : ready[i] = t
            \/ records[t].state = "Running") =>
           /\ records[records[t].parent_task_id].state = "Decomposed"
           /\ \E i \in DOMAIN decisions :
                 /\ decisions[i].task_id = records[t].parent_task_id
                 /\ decisions[i].decision = "decompose"

\* ------------------------------------------------------ Stuck jobs
\* C32: Stuck is a terminal job state: no step of the queue changes the
\* state of a job that is Stuck.
C32_Step ==
    \A j \in DOMAIN jobs :
        jobs[j].state = "Stuck" => jobs'[j].state = "Stuck"

C32_StuckIsTerminal == [][C32_Step]_vars

\* ------------------------------------------------------ dropped sender
\* C33: after the shutdown sender was dropped without a shutdown value,
\* every worker eventually leaves worker_loop, and no worker takes a lease
\* any more.
C33_DroppedSenderStops ==
    /\ (joinpc = "dropped") ~> (\A w \in Workers : pc[w] = "exited")
    /\ [][joinpc = "dropped" =>
             \A w \in Workers : ~(lease[w] = NoTask /\ lease'[w] # NoTask)]_vars

\* ------------------------------------------------------ job state from task states
\* C34: every list of task states falls into one of the branches before the
\* final fallback of update_state_from_tasks (empty, all Succeeded, some
\* member Queued, Running or RetryScheduled, all terminal with a Dead
\* member), and a job whose members are all terminal is not set to Running.
C34_FallbackUnreachable ==
    job_call # NoJobCall =>
       LET states == {job_call.task_states[i] : i \in DOMAIN job_call.task_states}
       IN /\ \/ states = {}
             \/ states = {"Succeeded"}
             \/ states \cap {"Running", "Queued", "RetryScheduled"} # {}
             \/ /\ states \subseteq {"Succeeded", "Decomposed", "Dead"}
                /\ "Dead" \in states
          /\ (states # {} /\ states \subseteq {"Succeeded", "Decomposed", "Dead"})
                => jobs[job_call.job].state # "Running"

C36_EnvelopeIdIsKey ==
    \A k \in DOMAIN records : records[k].envelope = k

\* ------------------------------------------------------ dead dependencies
\* the dependencies of task t that ended Dead or Decomposed
EndedUnacked(t) ==
    {d \in records[t].depends_on :
        d \in DOMAIN records /\ records[d].state \in {"Dead", "Decomposed"}}

\* C37: a task that waits for a task that ended Dead or Decomposed stays
\* Queued, out of the ready FIFO and without lease, and keeps that
\* dependency in its record and in the graph; the step that ends a task in
\* Dead or Decomposed changes no edge, no ready entry and no other record.
C37_Waiting ==
    \A t \in DOMAIN records : \A d \in EndedUnacked(t) :
        /\ records[t].state = "Queued"
        /\ records[t].attempts = 0
        /\ \A i \in DOMAIN ready : ready[i] # t
        /\ \A w \in Workers : lease[w] # t
        /\ d \in get_dependencies(edges, t)
        /\ t \in get_waiting_tasks(reverse_edges, d)

C37_Step ==
    /\ \A t \in DOMAIN records : EndedUnacked(t) \subseteq records'[t].depends_on
    /\ \A d \in DOMAIN records :
          (records[d].state = "Running"
              /\ records'[d].state \in {"Dead", "Decomposed"}) =>
             /\ edges' = edges
             /\ reverse_edges' = reverse_edges
             /\ ready' = ready
             /\ \A t \in DOMAIN records : t # d => records'[t] = records[t]

C37_OnlyAckReleases == []C37_Waiting /\ [][C37_Step]_vars

C37_Witness ==
    \E t \in DOMAIN records : \E d \in EndedUnacked(t) :
        /\ records[d].state = "Dead"
        /\ \E i \in DOMAIN decisions :
              decisions[i].task_id = d /\ decisions[i].decision = "mark_dead"
        /\ \A w \in Workers : pc[w] \notin {"c_dead", "c_retry", "c_notify"}

\* ------------------------------------------------------ wake-ups
\* C38: when every worker is blocked in lease() and one submit_job has added
\* one ready task per worker, all these tasks become Running although no
\* handler returns.
C38_AllBlockedWorkersWake ==
    (/\ \A w \in Workers : pc[w] = "waiting"
     /\ Len(ready) = NumWorkers
     /\ clientpc = "notify")
       ~> (\A t \in DOMAIN records : records[t].state = "Running")

\* ------------------------------------------------------ cancelled jobs
\* C39: a job that cancel_job set to Cancelled stays Cancelled: no later
\* step, in particular no lease attempt that pops one of its tasks after
\* the job's deadline, changes its state.
C39_Step ==
    \A j \in DOMAIN jobs :
        jobs[j].state = "Cancelled" => jobs'[j].state = "Cancelled"

C39_CancelledStays == [][C39_Step]_vars

\* ------------------------------------------------------ errors of complete
\* C40: when complete returns an error (add_child_tasks finds no record or
\* no owning job), the AttemptRecord of the call is not in the store, no
\* child record and no ready entry was created, and the task is not left
\* Running without its lease.
C40_Step ==
    \A w \in Workers :
        (pc[w] = "c_child1" /\ pc'[w] = "idle") =>
           /\ local[w].attempt_id \notin DOMAIN attempts'
           /\ DOMAIN records' = DOMAIN records
           /\ ready' = ready
           /\ ~(/\ lease[w] \in DOMAIN records'
                /\ records'[lease[w]].state = "Running"
                /\ lease'[w] = NoTask)

C40_ErrorLeavesStore == [][C40_Step]_vars

====
